---- MODULE Spec2Model ----
(***************************************************************************)
(* State-machine model of the signal matching engine                       *)
(* (lib/matcher.py: SignalMatcher) and of the collaborators it drives      *)
(* (HubSpot CRM client, Supabase reference store and audit table, Slack).  *)
(*                                                                         *)
(* Text values on which the code computes (lower(), strip(), "in") are     *)
(* sequences of one-character strings; identifiers the code only compares  *)
(* or passes on (entity ids, owner ids) are atomic strings.  Similarity    *)
(* scores and the threshold are in hundredths (0.80 is 80).                *)
(***************************************************************************)
EXTENDS Integers, Sequences, FiniteSets, TLC

VARIABLES
    pc,                 \* position of the current invocation
    run,                \* number of the current match_signal invocation
    threshold,          \* self.threshold
    signal,             \* the signal object stored in the CRM (its properties)
    crm_links,          \* CRM: company ids associated with the signal
    match_history,      \* Supabase table match_history (rows inserted so far)
    audit_mark,         \* length of match_history when the current run began
    linked_before,      \* company ids whose link an earlier run created
    existing_companies, \* local: signal["associations"]["companies"]
    company_names,      \* local: extracted names
    name_idx,           \* local: position of the for-loop over company_names
    all_matches,        \* local: admitted MatchResult objects
    seen_ids,           \* local: seen_ids
    best_match,         \* local: index in all_matches of best_match (0: unset)
    link_idx,           \* local: position of the for-loop over all_matches
    associations_created, \* local counter
    owner_name,         \* local
    shared_user_names,  \* local
    calls,              \* external calls made by the current run, in order
    faults,             \* collaborator failures injected into the current run
    slack_mode,         \* notify_slack and self.slack, as read by the run
    result,             \* the value returned by the current run
    arg,                \* input of the pure function under check
    ret                 \* its return value

vars == <<pc, run, threshold, signal, crm_links, match_history, audit_mark,
          linked_before,
          existing_companies, company_names, name_idx, all_matches, seen_ids,
          best_match, link_idx, associations_created, owner_name,
          shared_user_names, calls, faults, slack_mode, result, arg, ret>>

engine_vars == <<run, threshold, signal, crm_links, match_history,
                 audit_mark, linked_before, existing_companies, company_names, name_idx,
                 all_matches, seen_ids, best_match, link_idx,
                 associations_created, owner_name, shared_user_names, calls,
                 faults, slack_mode, result>>

(***************************************************************************)
(* Bounds of the model.                                                    *)
(***************************************************************************)
MaxNames == 2       \* extracted names per run
MaxRuns == 2        \* invocations of match_signal on the signal
MaxMatches == 3     \* length of the lists given to select_best_match
MaxFaults == 1      \* collaborator failures injected into one run

\* .limit(5) of the name search
SearchLimit == 5

\* Python's None where an object is expected
NoneVal == [none |-> TRUE]
\* a local not yet assigned
NoValue == [unset |-> TRUE]
\* An optional text (None or a str) is <<>> or <<text>>; "value or ''":
OrEmpty(opt) == IF opt = <<>> THEN <<>> ELSE opt[1]

(***************************************************************************)
(* Text helpers: str.lower(), str.strip(), the "in" substring test.        *)
(***************************************************************************)
UpperChars == <<"A","B","C","D","E","F","G","H","I","J","K","L","M",
                "N","O","P","Q","R","S","T","U","V","W","X","Y","Z">>
LowerChars == <<"a","b","c","d","e","f","g","h","i","j","k","l","m",
                "n","o","p","q","r","s","t","u","v","w","x","y","z">>

LowerChar(c) ==
    IF \E i \in 1..26 : UpperChars[i] = c
    THEN LowerChars[CHOOSE i \in 1..26 : UpperChars[i] = c]
    ELSE c

Lower(s) == [i \in 1..Len(s) |-> LowerChar(s[i])]

IsSpace(c) == c \in {" ", "\t", "\n"}

RECURSIVE LStrip(_)
LStrip(s) == IF s # <<>> /\ IsSpace(Head(s)) THEN LStrip(Tail(s)) ELSE s

RECURSIVE RStrip(_)
RStrip(s) ==
    IF s # <<>> /\ IsSpace(s[Len(s)]) THEN RStrip(SubSeq(s, 1, Len(s) - 1))
    ELSE s

Strip(s) == RStrip(LStrip(s))

\* Python: s in t
IsSubstr(s, t) ==
    \E i \in 0..(Len(t) - Len(s)) : SubSeq(t, i + 1, i + Len(s)) = s

\* dict.get(key, default)
Get(d, key, default) == IF key \in DOMAIN d THEN d[key] ELSE default

S_agency == <<"a","g","e","n","c","y">>
S_customer == <<"c","u","s","t","o","m","e","r">>
S_1105763437 == <<"1","1","0","5","7","6","3","4","3","7">>

(***************************************************************************)
(* SignalMatcher: class attributes and pure methods.                       *)
(***************************************************************************)
\* STAGE_PRIORITY.get(stage, 0)
STAGE_PRIORITY(stage) ==
    CASE stage = "Customer" -> 3
      [] stage = "Prospect" -> 2
      [] stage = "Agency" -> 1
      [] OTHER -> 0

CUSTOMER_STAGES == {S_customer, S_1105763437}

StageMutantNoLower(company_details) ==
    LET lifecyclestage == Get(company_details, "lifecyclestage", <<>>)
        company_type == Lower(Get(company_details, "company_type", <<>>))
    IN  IF company_type = S_agency THEN "Agency"
        ELSE IF lifecyclestage \in CUSTOMER_STAGES THEN "Customer"
        ELSE "Prospect"

determine_company_stage(company_details) ==
    LET lifecyclestage == Lower(Get(company_details, "lifecyclestage", <<>>))
        company_type == Lower(Get(company_details, "company_type", <<>>))
    IN  IF company_type = S_agency THEN "Agency"
        ELSE IF lifecyclestage \in CUSTOMER_STAGES THEN "Customer"
        ELSE "Prospect"

\* The mutation of get_assignment_for_stage without the fallback to the
\* company owner.
AssignMutantNoFallback(stage, company_details) ==
    LET ae_owner == Get(company_details, "ae_owner", "")
        sdr_owner == Get(company_details, "sdr_owner", "")
        brand_champ == Get(company_details, "brand_champ", "")
        company_owner == Get(company_details, "hubspot_owner_id", "")
    IN  IF stage = "Prospect"
        THEN <<ae_owner,
               SelectSeq(<<sdr_owner, company_owner>>,
                         LAMBDA uid : uid # "" /\ uid # ae_owner)>>
        ELSE IF stage = "Customer"
        THEN <<brand_champ,
               IF company_owner # "" /\ company_owner # brand_champ
               THEN <<company_owner>> ELSE <<>> >>
        ELSE <<company_owner, <<>> >>

\* owner_id, shared_ids of get_assignment_for_stage, as a pair
get_assignment_for_stage(stage, company_details) ==
    LET ae_owner == Get(company_details, "ae_owner", "")
        sdr_owner == Get(company_details, "sdr_owner", "")
        brand_champ == Get(company_details, "brand_champ", "")
        company_owner == Get(company_details, "hubspot_owner_id", "")
    IN  IF stage = "Prospect"
        THEN LET owner_id == IF ae_owner # "" THEN ae_owner ELSE company_owner
             IN  <<owner_id,
                   SelectSeq(<<sdr_owner, company_owner>>,
                             LAMBDA uid : uid # "" /\ uid # owner_id)>>
        ELSE IF stage = "Customer"
        THEN LET owner_id == IF brand_champ # "" THEN brand_champ
                             ELSE company_owner
             IN  <<owner_id,
                   IF company_owner # "" /\ company_owner # owner_id
                   THEN <<company_owner>> ELSE <<>> >>
        ELSE <<company_owner, <<>> >>

\* sort_key(m) of select_best_match
sort_key(m) == <<m.similarity, STAGE_PRIORITY(m.stage)>>

\* tuple comparison of two sort keys: k1 < k2
KeyLess(k1, k2) == k1[1] < k2[1] \/ (k1[1] = k2[1] /\ k1[2] < k2[2])

\* One insertion of a stable descending sort: m goes after every element
\* whose key is not smaller, so equal keys keep their order of arrival.
RECURSIVE InsertDesc(_, _)
InsertDesc(sorted, m) ==
    IF sorted = <<>> THEN <<m>>
    ELSE IF KeyLess(sort_key(Head(sorted)), sort_key(m))
         THEN <<m>> \o sorted
         ELSE <<Head(sorted)>> \o InsertDesc(Tail(sorted), m)

\* The mutation of InsertDesc in which a later equal key overtakes.
RECURSIVE InsertDescUnstable(_, _)
InsertDescUnstable(sorted, m) ==
    IF sorted = <<>> THEN <<m>>
    ELSE IF ~KeyLess(sort_key(m), sort_key(Head(sorted)))
         THEN <<m>> \o sorted
         ELSE <<Head(sorted)>> \o InsertDescUnstable(Tail(sorted), m)

\* sorted(matches, key=sort_key, reverse=True): stable, descending
RECURSIVE SortedDesc(_)
SortedDesc(matches) ==
    IF matches = <<>> THEN <<>>
    ELSE InsertDesc(SortedDesc(SubSeq(matches, 1, Len(matches) - 1)),
                    matches[Len(matches)])

RECURSIVE SortedDescUnstable(_)
SortedDescUnstable(matches) ==
    IF matches = <<>> THEN <<>>
    ELSE InsertDescUnstable(
             SortedDescUnstable(SubSeq(matches, 1, Len(matches) - 1)),
             matches[Len(matches)])

SelectMutantLastWins(matches) ==
    IF matches = <<>> THEN NoneVal
    ELSE IF Len(matches) = 1 THEN matches[1]
    ELSE SortedDescUnstable(matches)[1]

SelectMutantScoreOnly(matches) ==
    IF matches = <<>> THEN NoneVal
    ELSE IF Len(matches) = 1 THEN matches[1]
    ELSE LET i == CHOOSE i \in 1..Len(matches) :
                      /\ \A j \in 1..Len(matches) :
                             matches[j].similarity <= matches[i].similarity
                      /\ \A j \in 1..(i - 1) :
                             matches[j].similarity < matches[i].similarity
         IN  matches[i]

select_best_match(matches) ==
    IF matches = <<>> THEN NoneVal
    ELSE IF Len(matches) = 1 THEN matches[1]
    ELSE SortedDesc(matches)[1]

(***************************************************************************)
(* The collaborators' data.                                                *)
(***************************************************************************)
\* signal_id: the id match_signal was called with.  The batch script passes
\* signals[i]["id"] (arg.signals[run]); a single invocation is given "S1".
SignalId == IF "signals" \in DOMAIN arg THEN arg.signals[run] ELSE "S1"

\* Supabase table companies: hubspot_id is its conflict key (unique).
companies_table ==
    { [hubspot_id |-> "E1", name |-> <<"A","c">>, domain |-> <<"z">>],
      [hubspot_id |-> "E2", name |-> <<"a">>, domain |-> <<"z">>] }

Companies == { r.hubspot_id : r \in companies_table }

\* CRM attributes of each company, as get_company_details returns them.
CompanyDetails(company_id) ==
    IF company_id = "E1"
    THEN [lifecyclestage |-> <<"l","e","a","d">>, company_type |-> <<>>,
          ae_owner |-> "U1", sdr_owner |-> "U2", brand_champ |-> "",
          hubspot_owner_id |-> "U3"]
    ELSE [lifecyclestage |-> <<"C","u","s","t","o","m","e","r">>,
          company_type |-> <<"B","r","a","n","d">>,
          ae_owner |-> "", sdr_owner |-> "", brand_champ |-> "U4",
          hubspot_owner_id |-> "U3"]

EmptyDetails == [k \in {} |-> ""]

\* Names the extraction provider may return.
Names == { <<"a","c">>, <<"a",".">>, <<"z">> }

\* The signal objects considered: <<description, citation>> as optional texts.
SignalTexts ==
    { [signal_description |-> <<>>, signal_citation |-> <<>>],
      [signal_description |-> << <<>> >>, signal_citation |-> << <<>> >>],
      [signal_description |-> << <<" ">> >>, signal_citation |-> <<>>],
      [signal_description |-> << <<"x">> >>, signal_citation |-> <<>>],
      [signal_description |-> << <<>> >>, signal_citation |-> << <<"x">> >>] }

Thresholds == {80, 90}

RECURSIVE SeqsUpTo(_, _)
SeqsUpTo(S, n) ==
    IF n = 0 THEN {<<>>}
    ELSE LET shorter == SeqsUpTo(S, n - 1)
         IN  shorter \cup { Append(q, x) : q \in shorter, x \in S }

\* All orders in which the rows of a set can come back.
RECURSIVE Orders(_)
Orders(S) ==
    IF S = {} THEN {<<>>}
    ELSE UNION { { <<x>> \o q : q \in Orders(S \ {x}) } : x \in S }

(***************************************************************************)
(* search_company_by_name                                                  *)
(***************************************************************************)
\* company_name.replace(",", "").replace(".", "").replace("'", "''")
RECURSIVE Sanitize(_)
Sanitize(s) ==
    IF s = <<>> THEN <<>>
    ELSE IF Head(s) \in {",", "."} THEN Sanitize(Tail(s))
    ELSE IF Head(s) = "'" THEN <<"'", "'">> \o Sanitize(Tail(s))
    ELSE <<Head(s)>> \o Sanitize(Tail(s))

\* name.ilike.%q% or domain.ilike.%q%
IlikeRows(q) ==
    { r \in companies_table :
          \/ IsSubstr(Lower(q), Lower(r.name))
          \/ IsSubstr(Lower(q), Lower(r.domain)) }

\* Responses of the query: the matching rows in any order, cut by .limit(5).
SearchResponses(company_name) ==
    { SubSeq(q, 1, IF Len(q) < SearchLimit THEN Len(q) ELSE SearchLimit) :
          q \in Orders(IlikeRows(Sanitize(company_name))) }

SimilarityMutantFlat(company_name, record) == 90

Similarity(company_name, record) ==
    LET name_lower == Lower(record.name)
        search_lower == Lower(company_name)
    IN  IF name_lower = search_lower THEN 100
        ELSE IF IsSubstr(search_lower, name_lower)
                \/ IsSubstr(name_lower, search_lower) THEN 90
        ELSE 80

\* response: [ok |-> TRUE, data |-> rows], or [ok |-> FALSE] when the
\* backend call raised
search_company_by_name(company_name, response) ==
    IF ~response.ok THEN <<>>
    ELSE [i \in 1..Len(response.data) |->
             [hubspot_id |-> response.data[i].hubspot_id,
              name |-> response.data[i].name,
              domain |-> response.data[i].domain,
              similarity |-> Similarity(company_name, response.data[i])]]

(***************************************************************************)
(* match_signal, one action per step of the method.                        *)
(***************************************************************************)
Call(op, fields) == [op |-> op] @@ fields

\* 1 for a call that failed
Failed(ok) == IF ok THEN 0 ELSE 1

\* hubspot.get_company_details: the attribute map, empty when the fetch failed
get_company_details(company_id, fetched) ==
    IF fetched THEN CompanyDetails(company_id) ELSE EmptyDetails

\* hubspot.get_owner_name
get_owner_name(owner_id) ==
    CASE owner_id = "U1" -> "Una"
      [] owner_id = "U2" -> "Uma"
      [] owner_id = "U3" -> "Ugo"
      [] owner_id = "U4" -> "Uli"
      [] OTHER -> ""

AdmitMutantNoThreshold(r, seen, thr) == r.hubspot_id \notin seen

AdmitMutantNoDedup(r, seen, thr) == r.similarity >= thr

\* the condition of line 181
Admit(r, seen, thr) == r.hubspot_id \notin seen /\ r.similarity >= thr

\* The mutation in which an admitted candidate carries no assignment.
NewMatchMutantUnassigned(r, fetched) ==
    LET company_details == get_company_details(r.hubspot_id, fetched)
        stage == determine_company_stage(company_details)
    IN  [hubspot_id |-> r.hubspot_id, name |-> r.name,
         match_type |-> "company", similarity |-> r.similarity,
         association_created |-> FALSE, stage |-> stage,
         owner_id |-> "", shared_user_ids |-> <<>>]

\* lines 182-187 for one admitted result
NewMatch(r, fetched) ==
    LET company_details == get_company_details(r.hubspot_id, fetched)
        stage == determine_company_stage(company_details)
        assignment == get_assignment_for_stage(stage, company_details)
    IN  [hubspot_id |-> r.hubspot_id, name |-> r.name,
         match_type |-> "company", similarity |-> r.similarity,
         association_created |-> FALSE, stage |-> stage,
         owner_id |-> assignment[1], shared_user_ids |-> assignment[2]]

\* the inner loop (lines 180-188) over one search's results; acc holds
\* all_matches, seen_ids and the calls made; fetched[id] tells whether the
\* detail fetch of company id succeeds
RECURSIVE AdmitResults(_, _, _, _)
AdmitResults(results, acc, thr, fetched) ==
    IF results = <<>> THEN acc
    ELSE LET r == Head(results)
         IN  IF Admit(r, acc.seen, thr)
             THEN AdmitResults(Tail(results),
                    [matches |-> Append(acc.matches,
                                        NewMatch(r, fetched[r.hubspot_id])),
                     seen |-> acc.seen \cup {r.hubspot_id},
                     calls |-> Append(acc.calls,
                                 Call("get_company_details",
                                      [company_id |-> r.hubspot_id,
                                       ok |-> fetched[r.hubspot_id]]))],
                    thr, fetched)
             ELSE AdmitResults(Tail(results), acc, thr, fetched)

\* the dict of line 163
NoTextResult ==
    [signal_id |-> SignalId, signal_type |-> "company",
     error |-> "No text content", company_matches |-> <<>>,
     contact_matches |-> <<>>, total_matches |-> 0,
     associations_created |-> 0]

\* The mutation in which the exception reaches the caller: nothing returned.
FatalResultMutantRaises == NoValue

\* the dict of line 243
FatalResult ==
    [signal_id |-> SignalId, error |-> "exception", company_matches |-> <<>>,
     contact_matches |-> <<>>, total_matches |-> 0,
     associations_created |-> 0]

\* the dict of lines 173 and 194
NoMatchResult(names) ==
    [signal_id |-> SignalId, signal_type |-> "company",
     extracted_companies |-> names, company_matches |-> <<>>,
     contact_matches |-> <<>>, total_matches |-> 0,
     associations_created |-> 0]

\* The mutation in which the count returned is the number of candidates.
MatchedResultMutantCountsAll ==
    [signal_id |-> SignalId, signal_type |-> "company",
     extracted_companies |-> company_names,
     company_matches |->
         [i \in 1..Len(all_matches) |->
             [hubspot_id |-> all_matches[i].hubspot_id,
              name |-> all_matches[i].name,
              similarity |-> all_matches[i].similarity,
              stage |-> all_matches[i].stage,
              association_created |-> all_matches[i].association_created]],
     best_match |->
         [hubspot_id |-> all_matches[best_match].hubspot_id,
          name |-> all_matches[best_match].name,
          stage |-> all_matches[best_match].stage,
          owner_assigned |-> owner_name,
          shared_users |-> shared_user_names],
     contact_matches |-> <<>>, total_matches |-> Len(all_matches),
     associations_created |-> Len(all_matches)]

\* the dict of lines 232-237
MatchedResult ==
    [signal_id |-> SignalId, signal_type |-> "company",
     extracted_companies |-> company_names,
     company_matches |->
         [i \in 1..Len(all_matches) |->
             [hubspot_id |-> all_matches[i].hubspot_id,
              name |-> all_matches[i].name,
              similarity |-> all_matches[i].similarity,
              stage |-> all_matches[i].stage,
              association_created |-> all_matches[i].association_created]],
     best_match |->
         [hubspot_id |-> all_matches[best_match].hubspot_id,
          name |-> all_matches[best_match].name,
          stage |-> all_matches[best_match].stage,
          owner_assigned |-> owner_name,
          shared_users |-> shared_user_names],
     contact_matches |-> <<>>, total_matches |-> Len(all_matches),
     associations_created |-> associations_created]

\* "if notify_slack and self.slack": mode "off" is notify_slack = False or a
\* matcher built with enable_slack = False; otherwise the notify method is
\* called and send_message posts unless no webhook is configured
SlackModes == {"off", "unconfigured", "sent", "failed"}

\* SlackClient.send_message; match_signal discards the value
send_message(mode) == mode = "sent"

NotifiedMutantNever(log, kind, mode, fields) == log

\* the calls after "if notify_slack and self.slack: self.slack.notify_...()"
Notified(log, kind, mode, fields) ==
    IF mode = "off" THEN log ELSE Append(log, Call(kind, fields))

NotifyMutantAlways(match) == TRUE

\* the last condition of line 229: the "matched" notification goes out
\* only when the link to best_match was created by this run
ShouldNotifyMatched(match) == match.association_created

\* The mutation in which a failed send escapes send_message and reaches the
\* except branch of match_signal.
AfterNotifyMutantRaises(outcome, mode) ==
    IF mode = "failed" THEN FatalResult ELSE outcome

\* lines 172, 193 and 230 discard what the notify method returns, and
\* send_message (slack_client.py 22-48) catches what the post raises: the
\* dict returned is the one built, whatever the mode
AfterNotify(outcome, mode) == outcome

AppliedOwnerMutantAlways(owner_id, owner_success) ==
    get_owner_name(owner_id)

\* lines 216-220: owner_name stays "" unless the owner write succeeded
AppliedOwnerName(owner_id, owner_success) ==
    IF owner_success THEN get_owner_name(owner_id) ELSE ""

\* lines 225-226: shared_user_names stays [] unless the watcher write
\* succeeded
AppliedSharedNames(shared_user_ids, shared_success) ==
    IF shared_success
    THEN [i \in 1..Len(shared_user_ids) |-> get_owner_name(shared_user_ids[i])]
    ELSE <<>>

FullTextMutantNoStrip(description, citation) ==
    description \o <<" ">> \o citation

\* line 160: f"{description} {citation}".strip()
FullText(description, citation) ==
    Strip(description \o <<" ">> \o citation)

\* lines 143-163: fetch the signal, read its links, check its text
GetSignal ==
    /\ pc = "start"
    /\ \E fetched \in BOOLEAN :
         /\ faults + Failed(fetched) <= MaxFaults
         /\ faults' = faults + Failed(fetched)
         /\ calls' = Append(calls, Call("get_signal", [ok |-> fetched]))
         /\ IF ~fetched
            THEN /\ result' = FatalResult
                 /\ pc' = "done"
                 /\ UNCHANGED existing_companies
            ELSE LET description == OrEmpty(signal.signal_description)
                     citation == OrEmpty(signal.signal_citation)
                     full_text == FullText(description, citation)
                 IN  /\ existing_companies' = crm_links
                     /\ IF full_text = <<>>
                        THEN result' = NoTextResult /\ pc' = "done"
                        ELSE result' = result /\ pc' = "extract"
    /\ UNCHANGED <<run, threshold, signal, crm_links, match_history,
                   audit_mark,
                   linked_before, company_names, name_idx, all_matches,
                   seen_ids, best_match, link_idx, associations_created,
                   owner_name, shared_user_names, slack_mode,
                   arg, ret>>

\* lines 165-173: extract the names; none: notify "no match" and return
Extract ==
    /\ pc = "extract"
    /\ \E names \in SeqsUpTo(Names, MaxNames), mode \in SlackModes :
         LET called == Append(calls, Call("extract_company_names",
                                          [names |-> names]))
         IN  /\ company_names' = names
             /\ IF names = <<>>
                THEN /\ calls' = Notified(called, "notify_signal_no_match",
                                     mode, [extracted_companies |-> <<>>])
                     /\ slack_mode' = mode
                     /\ result' = AfterNotify(NoMatchResult(<<>>), mode)
                     /\ pc' = "done"
                     /\ UNCHANGED <<name_idx, all_matches, seen_ids>>
                ELSE /\ calls' = called
                     /\ name_idx' = 1
                     /\ all_matches' = <<>>
                     /\ seen_ids' = {}
                     /\ result' = result
                     /\ slack_mode' = slack_mode
                     /\ pc' = "search"
    /\ UNCHANGED <<run, threshold, signal, crm_links, match_history,
                   audit_mark,
                   linked_before, existing_companies, best_match, link_idx,
                   associations_created, owner_name, shared_user_names,
                   faults, arg, ret>>

\* The mutation of the search step in which a failed search is not absorbed
\* by search_company_by_name and ends the run in the except branch.
SearchNameMutantAbort ==
    /\ pc = "search"
    /\ name_idx <= Len(company_names)
    /\ LET company_name == company_names[name_idx]
       IN  \E response \in
                  {[ok |-> FALSE]} \cup
                  { [ok |-> TRUE, data |-> q] :
                        q \in SearchResponses(company_name) },
              fetched \in [Companies -> BOOLEAN] :
             LET results == search_company_by_name(company_name, response)
                 acc == AdmitResults(results,
                            [matches |-> all_matches, seen |-> seen_ids,
                             calls |-> Append(calls,
                                 Call("search_company_by_name",
                                      [company_name |-> company_name,
                                       results |-> results]))],
                            threshold, fetched)
                 failures == Failed(response.ok) + Cardinality(
                                { c \in acc.seen \ seen_ids : ~fetched[c] })
             IN  /\ \A c \in Companies :
                        c \notin (acc.seen \ seen_ids) => fetched[c]
                 /\ faults + failures <= MaxFaults
                 /\ faults' = faults + failures
                 /\ all_matches' = acc.matches
                 /\ seen_ids' = acc.seen
                 /\ calls' = acc.calls
                 /\ IF response.ok
                    THEN pc' = pc /\ result' = result
                    ELSE pc' = "done" /\ result' = FatalResult
    /\ name_idx' = name_idx + 1
    /\ UNCHANGED <<run, threshold, signal, crm_links, match_history,
                   audit_mark, linked_before, existing_companies, company_names,
                   best_match, link_idx, associations_created, owner_name,
                   shared_user_names, slack_mode,
                   arg, ret>>


\* lines 177-188: one iteration of the loop over company_names
SearchName ==
    /\ pc = "search"
    /\ name_idx <= Len(company_names)
    /\ LET company_name == company_names[name_idx]
       IN  \E response \in
                  {[ok |-> FALSE]} \cup
                  { [ok |-> TRUE, data |-> q] :
                        q \in SearchResponses(company_name) },
              fetched \in [Companies -> BOOLEAN] :
             LET results == search_company_by_name(company_name, response)
                 acc == AdmitResults(results,
                            [matches |-> all_matches, seen |-> seen_ids,
                             calls |-> Append(calls,
                                 Call("search_company_by_name",
                                      [company_name |-> company_name,
                                       results |-> results]))],
                            threshold, fetched)
                 failures == Failed(response.ok) + Cardinality(
                                { c \in acc.seen \ seen_ids : ~fetched[c] })
             IN  /\ \A c \in Companies :
                        c \notin (acc.seen \ seen_ids) => fetched[c]
                 /\ faults + failures <= MaxFaults
                 /\ faults' = faults + failures
                 /\ all_matches' = acc.matches
                 /\ seen_ids' = acc.seen
                 /\ calls' = acc.calls
    /\ name_idx' = name_idx + 1
    /\ UNCHANGED <<pc, run, threshold, signal, crm_links, match_history,
                   audit_mark, linked_before, existing_companies, company_names,
                   best_match, link_idx, associations_created, owner_name,
                   shared_user_names, result, slack_mode,
                   arg, ret>>

BestIndexMutantFirst(matches) == 1

\* line 196: best_match refers to an element of all_matches (the link loop
\* later sets association_created on that same object)
BestIndex(matches) ==
    CHOOSE i \in 1..Len(matches) : matches[i] = select_best_match(matches)

\* The mutation in which the link step starts once the first name has been
\* searched, before the searches of the names after it.
SelectBestMutantEarly ==
    /\ pc = "search"
    /\ name_idx > 1
    /\ IF all_matches = <<>>
       THEN /\ \E mode \in SlackModes :
                 /\ calls' = Notified(calls, "notify_signal_no_match", mode,
                                 [extracted_companies |-> company_names])
                 /\ slack_mode' = mode
                 /\ result' = AfterNotify(NoMatchResult(company_names),
                                          mode)
            /\ pc' = "done"
            /\ UNCHANGED <<best_match, link_idx, associations_created>>
       ELSE /\ best_match' = BestIndex(all_matches)
            /\ associations_created' = 0
            /\ link_idx' = 1
            /\ pc' = "link"
            /\ UNCHANGED <<calls, result, slack_mode>>
    /\ UNCHANGED <<run, threshold, signal, crm_links, match_history,
                   audit_mark,
                   linked_before, existing_companies, company_names, name_idx,
                   all_matches, seen_ids, owner_name, shared_user_names,
                   faults, arg, ret>>


\* lines 190-199: after the loop; no match: notify and return; otherwise
\* choose best_match (a reference to an element of all_matches)
SelectBest ==
    /\ pc = "search"
    /\ name_idx > Len(company_names)
    /\ IF all_matches = <<>>
       THEN /\ \E mode \in SlackModes :
                 /\ calls' = Notified(calls, "notify_signal_no_match", mode,
                                 [extracted_companies |-> company_names])
                 /\ slack_mode' = mode
                 /\ result' = AfterNotify(NoMatchResult(company_names),
                                          mode)
            /\ pc' = "done"
            /\ UNCHANGED <<best_match, link_idx, associations_created>>
       ELSE /\ best_match' = BestIndex(all_matches)
            /\ associations_created' = 0
            /\ link_idx' = 1
            /\ pc' = "link"
            /\ UNCHANGED <<calls, result, slack_mode>>
    /\ UNCHANGED <<run, threshold, signal, crm_links, match_history,
                   audit_mark,
                   linked_before, existing_companies, company_names, name_idx,
                   all_matches, seen_ids, owner_name, shared_user_names,
                   faults, arg, ret>>

AuditRowMutantAlwaysCreated(match, success) ==
    [signal_id |-> SignalId, matched_type |-> "company",
     matched_hubspot_id |-> match.hubspot_id, confidence |-> match.similarity,
     association_created |-> TRUE]

\* the row log_match inserts into match_history
AuditRow(match, success) ==
    [signal_id |-> SignalId, matched_type |-> "company",
     matched_hubspot_id |-> match.hubspot_id, confidence |-> match.similarity,
     association_created |-> success]

AuditWritesMutantOnSuccess(match, success) ==
    IF success THEN <<AuditRow(match, success)>> ELSE <<>>

\* the rows line 207 passes to log_match after a link attempt: one, whatever
\* the attempt returned
AuditWrites(match, success) == <<AuditRow(match, success)>>

LinkMutantNoSkip(company_id, existing) == TRUE

\* the condition of line 201
NotYetLinked(company_id, existing) == company_id \notin existing

\* The mutation of the link step in which a failed link creation is tried a
\* second time.
LinkOneMutantRetry ==
    /\ pc = "link"
    /\ link_idx <= Len(all_matches)
    /\ LET match == all_matches[link_idx]
       IN  IF NotYetLinked(match.hubspot_id, existing_companies)
           THEN \E success \in BOOLEAN, inserted \in BOOLEAN :
                  /\ faults + Failed(success) + Failed(inserted) <= MaxFaults
                  /\ faults' = faults + Failed(success) + Failed(inserted)
                  /\ crm_links' = IF success
                                  THEN crm_links \cup {match.hubspot_id}
                                  ELSE crm_links
                  /\ all_matches' = [all_matches EXCEPT
                         ![link_idx].association_created = success]
                  /\ associations_created' =
                         IF success THEN associations_created + 1
                         ELSE associations_created
                  /\ LET rows == AuditWrites(match, success)
                     IN  /\ match_history' =
                                IF inserted THEN match_history \o rows
                                ELSE match_history
                         /\ calls' = calls \o
                                (IF success THEN <<>>
                                 ELSE << Call(
                                     "create_signal_company_association",
                                     [company_id |-> match.hubspot_id,
                                      ok |-> FALSE]) >>) \o
                                << Call("create_signal_company_association",
                                        [company_id |-> match.hubspot_id,
                                         ok |-> success]) >> \o
                                [i \in 1..Len(rows) |->
                                    Call("log_match", [row |-> rows[i],
                                                       ok |-> inserted])]
           ELSE UNCHANGED <<crm_links, all_matches, associations_created,
                            match_history, calls, faults>>
    /\ link_idx' = link_idx + 1
    /\ UNCHANGED <<pc, run, threshold, signal, linked_before, audit_mark,
                   existing_companies, company_names, name_idx, seen_ids,
                   best_match, owner_name, shared_user_names, result,
                   slack_mode,
                   arg, ret>>


\* lines 200-209: one iteration of the loop over all_matches
LinkOne ==
    /\ pc = "link"
    /\ link_idx <= Len(all_matches)
    /\ LET match == all_matches[link_idx]
       IN  IF NotYetLinked(match.hubspot_id, existing_companies)
           THEN \E success \in BOOLEAN, inserted \in BOOLEAN :
                  /\ faults + Failed(success) + Failed(inserted) <= MaxFaults
                  /\ faults' = faults + Failed(success) + Failed(inserted)
                  /\ crm_links' = IF success
                                  THEN crm_links \cup {match.hubspot_id}
                                  ELSE crm_links
                  /\ all_matches' = [all_matches EXCEPT
                         ![link_idx].association_created = success]
                  /\ associations_created' =
                         IF success THEN associations_created + 1
                         ELSE associations_created
                  /\ LET rows == AuditWrites(match, success)
                     IN  /\ match_history' =
                                IF inserted THEN match_history \o rows
                                ELSE match_history
                         /\ calls' = calls \o
                                << Call("create_signal_company_association",
                                        [company_id |-> match.hubspot_id,
                                         ok |-> success]) >> \o
                                [i \in 1..Len(rows) |->
                                    Call("log_match", [row |-> rows[i],
                                                       ok |-> inserted])]
           ELSE UNCHANGED <<crm_links, all_matches, associations_created,
                            match_history, calls, faults>>
    /\ link_idx' = link_idx + 1
    /\ UNCHANGED <<pc, run, threshold, signal, linked_before, audit_mark,
                   existing_companies, company_names, name_idx, seen_ids,
                   best_match, owner_name, shared_user_names, result,
                   slack_mode,
                   arg, ret>>

\* lines 211-220: the owner write, for best_match only
AssignOwner ==
    /\ pc = "link"
    /\ link_idx > Len(all_matches)
    /\ LET owner_id == all_matches[best_match].owner_id
       IN  IF owner_id # ""
           THEN \E owner_success \in BOOLEAN :
                  /\ faults + Failed(owner_success) <= MaxFaults
                  /\ faults' = faults + Failed(owner_success)
                  /\ calls' = Append(calls, Call("update_signal_owner",
                                 [owner_id |-> owner_id,
                                  ok |-> owner_success]))
                  /\ owner_name' = AppliedOwnerName(owner_id,
                                                     owner_success)
           ELSE calls' = calls /\ owner_name' = "" /\ faults' = faults
    /\ shared_user_names' = <<>>
    /\ pc' = "shared"
    /\ UNCHANGED <<run, threshold, signal, crm_links, match_history,
                   audit_mark,
                   linked_before, existing_companies, company_names, name_idx,
                   all_matches, seen_ids, best_match, link_idx,
                   associations_created, result, slack_mode,
                   arg, ret>>

\* lines 222-227: the watcher write, for best_match only
AssignShared ==
    /\ pc = "shared"
    /\ LET shared_user_ids == all_matches[best_match].shared_user_ids
       IN  IF shared_user_ids # <<>>
           THEN \E shared_success \in BOOLEAN :
                  /\ faults + Failed(shared_success) <= MaxFaults
                  /\ faults' = faults + Failed(shared_success)
                  /\ calls' = Append(calls, Call("update_signal_shared_users",
                                 [user_ids |-> shared_user_ids,
                                  ok |-> shared_success]))
                  /\ shared_user_names' =
                         AppliedSharedNames(shared_user_ids, shared_success)
           ELSE UNCHANGED <<calls, shared_user_names, faults>>
    /\ pc' = "notify"
    /\ UNCHANGED <<run, threshold, signal, crm_links, match_history,
                   audit_mark,
                   linked_before, existing_companies, company_names, name_idx,
                   all_matches, seen_ids, best_match, link_idx,
                   associations_created, owner_name, result, slack_mode,
                   arg, ret>>

\* lines 229-239: the "matched" notification and the returned dict
NotifyReturn ==
    /\ pc = "notify"
    /\ \E mode \in SlackModes :
         /\ calls' = IF ShouldNotifyMatched(all_matches[best_match])
                     THEN Notified(calls, "notify_signal_matched", mode,
                            [company_id |-> all_matches[best_match].hubspot_id,
                             owner_name |-> owner_name,
                             shared_users |-> shared_user_names])
                     ELSE calls
         /\ slack_mode' = mode
         /\ result' = AfterNotify(MatchedResult, mode)
    /\ pc' = "done"
    /\ UNCHANGED <<run, threshold, signal, crm_links, match_history,
                   audit_mark,
                   linked_before, existing_companies, company_names, name_idx,
                   all_matches, seen_ids, best_match, link_idx,
                   associations_created, owner_name, shared_user_names,
                   faults, arg, ret>>

\* company ids whose link the current run created
CreatedNow ==
    { calls[i].company_id : i \in { j \in 1..Len(calls) :
          calls[j].op = "create_signal_company_association" /\ calls[j].ok } }

\* the caller invokes match_signal on the signal again: fresh locals
NextRun ==
    /\ pc = "done"
    /\ run < MaxRuns
    /\ run' = run + 1
    /\ linked_before' = linked_before \cup CreatedNow
    /\ pc' = "start"
    /\ existing_companies' = {}
    /\ company_names' = <<>>
    /\ name_idx' = 0
    /\ all_matches' = <<>>
    /\ seen_ids' = {}
    /\ best_match' = 0
    /\ link_idx' = 0
    /\ associations_created' = 0
    /\ owner_name' = ""
    /\ shared_user_names' = <<>>
    /\ calls' = <<>>
    /\ faults' = 0
    /\ slack_mode' = "unread"
    /\ result' = NoValue
    /\ audit_mark' = Len(match_history)
    /\ UNCHANGED <<threshold, signal, crm_links, match_history, arg, ret>>

Init ==
    /\ pc = "start"
    /\ run = 1
    /\ threshold \in Thresholds
    /\ signal \in SignalTexts
    /\ crm_links \in SUBSET Companies
    /\ match_history = <<>>
    /\ audit_mark = 0
    /\ linked_before = {}
    /\ existing_companies = {}
    /\ company_names = <<>>
    /\ name_idx = 0
    /\ all_matches = <<>>
    /\ seen_ids = {}
    /\ best_match = 0
    /\ link_idx = 0
    /\ associations_created = 0
    /\ owner_name = ""
    /\ shared_user_names = <<>>
    /\ calls = <<>>
    /\ faults = 0
    /\ slack_mode = "unread"
    /\ result = NoValue
    /\ arg = NoValue
    /\ ret = NoValue

Next ==
    \/ GetSignal
    \/ Extract
    \/ SearchName
    \/ SelectBest
    \/ LinkOne
    \/ AssignOwner
    \/ AssignShared
    \/ NotifyReturn
    \/ NextRun

Spec == Init /\ [][Next]_vars

\* One invocation is single-threaded and synchronous: once called it takes
\* its next step as soon as the call it waits for has returned.
RunStep ==
    \/ GetSignal
    \/ Extract
    \/ SearchName
    \/ SelectBest
    \/ LinkOne
    \/ AssignOwner
    \/ AssignShared
    \/ NotifyReturn

(***************************************************************************)
(* The pure methods on their own: Init draws the argument, one action      *)
(* applies the method.  The engine's variables stay at their initial       *)
(* values.                                                                 *)
(***************************************************************************)
EngineIdle ==
    /\ run = 1
    /\ threshold = 80
    /\ signal = [signal_description |-> <<>>, signal_citation |-> <<>>]
    /\ crm_links = {}
    /\ match_history = <<>>
    /\ audit_mark = 0
    /\ linked_before = {}
    /\ existing_companies = {}
    /\ company_names = <<>>
    /\ name_idx = 0
    /\ all_matches = <<>>
    /\ seen_ids = {}
    /\ best_match = 0
    /\ link_idx = 0
    /\ associations_created = 0
    /\ owner_name = ""
    /\ shared_user_names = <<>>
    /\ calls = <<>>
    /\ faults = 0
    /\ slack_mode = "unread"
    /\ result = NoValue

\* select_best_match: lists of MatchResult objects, told apart by their ids
MatchIds == <<"M1", "M2", "M3", "M4", "M5", "M6">>
SelectScores == {80, 95}
SelectStages == {"Customer", "Prospect", "Agency", ""}

SelectInputs ==
    { [i \in 1..Len(q) |->
          [hubspot_id |-> MatchIds[i], name |-> <<>>, match_type |-> "company",
           similarity |-> q[i][1], association_created |-> FALSE,
           stage |-> q[i][2], owner_id |-> "", shared_user_ids |-> <<>>]] :
      q \in SeqsUpTo(SelectScores \X SelectStages, MaxMatches) }

InitSelect ==
    /\ pc = "call"
    /\ arg \in SelectInputs
    /\ ret = NoValue
    /\ EngineIdle

CallSelectBestMatch ==
    /\ pc = "call"
    /\ ret' = select_best_match(arg)
    /\ pc' = "return"
    /\ UNCHANGED <<arg, engine_vars>>

SpecSelect == InitSelect /\ [][CallSelectBestMatch]_vars

\* determine_company_stage: attribute maps in which each of the two keys is
\* absent or holds a text
LifecycleValues ==
    { <<>>, S_customer, <<"C","u","s","t","o","m","e","r">>,
      <<"C","U","S","T","O","M","E","R">>, S_1105763437, <<"l","e","a","d">>,
      S_agency }
TypeValues ==
    { <<>>, S_agency, <<"A","g","e","n","c","y">>,
      <<"A","G","E","N","C","Y">>, <<"B","r","a","n","d">>, S_customer,
      <<"a","g","e","n","c","y"," ">> }

\* None: the key is absent
Optional(S) == {<<>>} \cup { <<x>> : x \in S }

StageInputs ==
    { (IF l = <<>> THEN EmptyDetails ELSE [lifecyclestage |-> l[1]]) @@
      (IF t = <<>> THEN EmptyDetails ELSE [company_type |-> t[1]]) :
      l \in Optional(LifecycleValues), t \in Optional(TypeValues) }

InitStage ==
    /\ pc = "call"
    /\ arg \in StageInputs
    /\ ret = NoValue
    /\ EngineIdle

CallDetermineCompanyStage ==
    /\ pc = "call"
    /\ ret' = [stage |-> determine_company_stage(arg)]
    /\ pc' = "return"
    /\ UNCHANGED <<arg, engine_vars>>

SpecStage == InitStage /\ [][CallDetermineCompanyStage]_vars

\* get_assignment_for_stage: a stage and an attribute map in which each of
\* the four owner fields is absent, empty or an owner id
OwnerValues == {"", "U1", "U2"}

OwnerField(key, opt) ==
    IF opt = <<>> THEN EmptyDetails ELSE (key :> opt[1])

AssignInputs ==
    { [stage |-> st,
       company_details |->
           OwnerField("ae_owner", a) @@ OwnerField("sdr_owner", sd) @@
           OwnerField("brand_champ", b) @@ OwnerField("hubspot_owner_id", o)] :
      st \in SelectStages,
      a \in Optional(OwnerValues), sd \in Optional(OwnerValues),
      b \in Optional(OwnerValues), o \in Optional(OwnerValues) }

InitAssign ==
    /\ pc = "call"
    /\ arg \in AssignInputs
    /\ ret = NoValue
    /\ EngineIdle

CallGetAssignmentForStage ==
    /\ pc = "call"
    /\ LET r == get_assignment_for_stage(arg.stage, arg.company_details)
       IN  ret' = [owner_id |-> r[1], shared_ids |-> r[2]]
    /\ pc' = "return"
    /\ UNCHANGED <<arg, engine_vars>>

SpecAssign == InitAssign /\ [][CallGetAssignmentForStage]_vars

(***************************************************************************)
(* scripts/process_all_signals.py: the loop over the signals listed.  arg  *)
(* holds the list, run is the position of the loop, ret the counters.      *)
(***************************************************************************)
MaxSignals == 2     \* length of the list of signals
SignalIds == {"S1", "S2"}

\* The lists list_signals_without_associations hands over: objects of the
\* CRM, each with its own id; an empty list ends the script at line 81.
BatchInputs ==
    { [signals |-> q] : q \in { l \in SeqsUpTo(SignalIds, MaxSignals) :
          /\ l # <<>>
          /\ \A i, j \in 1..Len(l) : l[i] = l[j] => i = j } }

\* The signal objects of a batch: one without text, one with a description.
BatchTexts ==
    { [signal_description |-> <<>>, signal_citation |-> <<>>],
      [signal_description |-> << <<"x">> >>, signal_citation |-> <<>>] }

\* lines 102-112: the counters after one call of match_signal returned
Tally(totals, returned) ==
    LET matches == Get(returned, "total_matches", 0)
        associations == Get(returned, "associations_created", 0)
    IN  [total_processed |-> totals.total_processed + 1,
         total_matched |-> totals.total_matched +
                               (IF matches > 0 THEN 1 ELSE 0),
         total_associations |-> totals.total_associations +
                               (IF matches > 0 THEN associations ELSE 0)]

\* lines 58-59 and 84-101: clients built, counters zero, first call made
InitBatch ==
    /\ pc = "start"
    /\ run = 1
    /\ arg \in BatchInputs
    /\ ret = [total_processed |-> 0, total_matched |-> 0,
              total_associations |-> 0]
    /\ threshold \in Thresholds
    /\ signal \in BatchTexts
    /\ crm_links \in SUBSET Companies
    /\ match_history = <<>>
    /\ audit_mark = 0
    /\ linked_before = {}
    /\ existing_companies = {}
    /\ company_names = <<>>
    /\ name_idx = 0
    /\ all_matches = <<>>
    /\ seen_ids = {}
    /\ best_match = 0
    /\ link_idx = 0
    /\ associations_created = 0
    /\ owner_name = ""
    /\ shared_user_names = <<>>
    /\ calls = <<>>
    /\ faults = 0
    /\ slack_mode = "unread"
    /\ result = NoValue

\* The mutation in which the loop calls match_signal for the next signal
\* while the link step of the current one is still running.
NextSignalMutantEarly ==
    /\ pc \in {"done", "link"}
    /\ run < Len(arg.signals)
    /\ ret' = Tally(ret, IF pc = "done" THEN result ELSE EmptyDetails)
    /\ run' = run + 1
    /\ \E properties \in BatchTexts, links \in SUBSET Companies :
         signal' = properties /\ crm_links' = links
    /\ linked_before' = {}
    /\ pc' = "start"
    /\ existing_companies' = {}
    /\ company_names' = <<>>
    /\ name_idx' = 0
    /\ all_matches' = <<>>
    /\ seen_ids' = {}
    /\ best_match' = 0
    /\ link_idx' = 0
    /\ associations_created' = 0
    /\ owner_name' = ""
    /\ shared_user_names' = <<>>
    /\ calls' = <<>>
    /\ faults' = 0
    /\ slack_mode' = "unread"
    /\ result' = NoValue
    /\ audit_mark' = Len(match_history)
    /\ UNCHANGED <<threshold, match_history, arg>>

\* lines 93-112: match_signal returned for signals[run]; the counters are
\* updated and the loop calls match_signal for signals[run + 1], another
\* object of the CRM with its own text and links
NextSignal ==
    /\ pc = "done"
    /\ run < Len(arg.signals)
    /\ ret' = Tally(ret, result)
    /\ run' = run + 1
    /\ \E properties \in BatchTexts, links \in SUBSET Companies :
         signal' = properties /\ crm_links' = links
    /\ linked_before' = {}
    /\ pc' = "start"
    /\ existing_companies' = {}
    /\ company_names' = <<>>
    /\ name_idx' = 0
    /\ all_matches' = <<>>
    /\ seen_ids' = {}
    /\ best_match' = 0
    /\ link_idx' = 0
    /\ associations_created' = 0
    /\ owner_name' = ""
    /\ shared_user_names' = <<>>
    /\ calls' = <<>>
    /\ faults' = 0
    /\ slack_mode' = "unread"
    /\ result' = NoValue
    /\ audit_mark' = Len(match_history)
    /\ UNCHANGED <<threshold, match_history, arg>>

\* lines 102-126: the last call returned; the loop ends with the summary
Summary ==
    /\ pc = "done"
    /\ run = Len(arg.signals)
    /\ ret' = Tally(ret, result)
    /\ pc' = "summary"
    /\ UNCHANGED <<arg, engine_vars>>

NextBatch ==
    \/ GetSignal
    \/ Extract
    \/ SearchName
    \/ SelectBest
    \/ LinkOne
    \/ AssignOwner
    \/ AssignShared
    \/ NotifyReturn
    \/ NextSignal
    \/ Summary

SpecBatch == InitBatch /\ [][NextBatch]_vars

(***************************************************************************)
(* search_company_by_name on its own, over a companies table with more     *)
(* rows than the query's limit.  A name that is None or "" is <<>>.        *)
(***************************************************************************)
SearchTable ==
    { [hubspot_id |-> "R1", name |-> <<"A","c">>, domain |-> <<"z">>],
      [hubspot_id |-> "R2", name |-> <<"a">>, domain |-> <<"a","c">>],
      [hubspot_id |-> "R3", name |-> <<"B","a","c">>, domain |-> <<>>],
      [hubspot_id |-> "R4", name |-> <<"q">>, domain |-> <<"A","C">>],
      [hubspot_id |-> "R5", name |-> <<>>, domain |-> <<"a","c">>],
      [hubspot_id |-> "R6", name |-> <<"a","c","e">>, domain |-> <<"z">>] }

SearchQueries == { <<"a","c">>, <<"A","C">>, <<"a",".","c">> }

\* the rows of SearchTable the or_(ilike, ilike) filter keeps, in any order,
\* cut by .limit(5)
SearchTableResponses(company_name) ==
    LET q == Sanitize(company_name)
        rows == { r \in SearchTable :
                    \/ IsSubstr(Lower(q), Lower(r.name))
                    \/ IsSubstr(Lower(q), Lower(r.domain)) }
    IN  { SubSeq(o, 1, IF Len(o) < SearchLimit THEN Len(o) ELSE SearchLimit) :
            o \in Orders(rows) }

SearchInputs ==
    { [company_name |-> n, response |-> [ok |-> FALSE]] :
        n \in SearchQueries } \cup
    { [company_name |-> p[1], response |-> [ok |-> TRUE, data |-> p[2]]] :
        p \in UNION { {n} \X SearchTableResponses(n) : n \in SearchQueries } }

InitSearch ==
    /\ pc = "call"
    /\ arg \in SearchInputs
    /\ ret = NoValue
    /\ EngineIdle

CallSearchCompanyByName ==
    /\ pc = "call"
    /\ ret' = [matches |->
                  search_company_by_name(arg.company_name, arg.response)]
    /\ pc' = "return"
    /\ UNCHANGED <<arg, engine_vars>>

SpecSearch == InitSearch /\ [][CallSearchCompanyByName]_vars

(***************************************************************************)
(* HubSpotClient.list_signals_without_associations, one action per         *)
(* iteration of its while loop.  arg holds the limit and the signals the   *)
(* CRM lists; ret holds the locals: the signals collected, the cursor      *)
(* (<<>> is None, <<n>> the cursor after n signals) and the signals of     *)
(* the pages fetched so far.                                               *)
(***************************************************************************)
MaxListed == 3      \* signals the CRM holds

ListedIds == <<"S1", "S2", "S3", "S4", "S5">>

\* what _parse_associations gives for a signal
AssociationValues ==
    { [companies |-> c, contacts |-> p] :
        c \in {<<>>, <<"E1">>}, p \in {<<>>, <<"P1">>} }

\* the signals of the CRM in the order the listing pages through them
ListedSignals ==
    { [i \in 1..Len(q) |-> [id |-> ListedIds[i], associations |-> q[i]]] :
        q \in SeqsUpTo(AssociationValues, MaxListed) }

ListInputs ==
    { [limit |-> l, signals |-> q] :
        l \in 0..MaxListed, q \in ListedSignals }

Min(a, b) == IF a < b THEN a ELSE b

\* list_signals(limit, after) (lines 119-160) when the CRM hands out a page
\* of size signals, size between 1 and limit
list_signals(signals, limit, after, size) ==
    LET start == IF after = <<>> THEN 0 ELSE after[1]
        stop == Min(start + Min(size, limit), Len(signals))
    IN  [results |-> SubSeq(signals, start + 1, stop),
         paging |-> [next |-> IF stop < Len(signals) THEN <<stop>>
                              ELSE <<>>]]

KeepMutantCompaniesOnly(item) == item.associations.companies = <<>>

\* line 184: "not companies and not contacts"
KeepSignal(item) ==
    /\ Get(item.associations, "companies", <<>>) = <<>>
    /\ Get(item.associations, "contacts", <<>>) = <<>>

\* lines 178-188: the for loop over one page, left at the break
RECURSIVE ScanPage(_, _, _)
ScanPage(results, unassociated, limit) ==
    IF results = <<>> THEN unassociated
    ELSE IF KeepSignal(Head(results))
         THEN LET appended == Append(unassociated, Head(results))
              IN  IF Len(appended) >= limit THEN appended
                  ELSE ScanPage(Tail(results), appended, limit)
    ELSE ScanPage(Tail(results), unassociated, limit)

\* lines 172-173
InitList ==
    /\ pc = "while"
    /\ arg \in ListInputs
    /\ ret = [unassociated |-> <<>>, after |-> <<>>, fetched |-> <<>>]
    /\ EngineIdle

\* lines 175-192: one iteration of the while loop
FetchPage ==
    /\ pc = "while"
    /\ Len(ret.unassociated) < arg.limit
    /\ LET requested == Min(100, arg.limit - Len(ret.unassociated))
       IN  \E size \in 1..requested :
             LET page == list_signals(arg.signals, requested, ret.after,
                                      size)
                 after == page.paging.next
             IN  /\ ret' = [unassociated |->
                                ScanPage(page.results, ret.unassociated,
                                         arg.limit),
                            after |-> after,
                            fetched |-> ret.fetched \o page.results]
                 /\ pc' = IF after = <<>> THEN "return" ELSE "while"
    /\ UNCHANGED <<arg, engine_vars>>

\* lines 175 and 194: the loop condition fails
ListReturn ==
    /\ pc = "while"
    /\ Len(ret.unassociated) >= arg.limit
    /\ pc' = "return"
    /\ UNCHANGED <<arg, ret, engine_vars>>

NextList ==
    \/ FetchPage
    \/ ListReturn

SpecList == InitList /\ [][NextList]_vars

(***************************************************************************)
(* scripts/match_signal.py: one invocation of match_signal from the        *)
(* command line; arg holds the parsed arguments.                           *)
(***************************************************************************)
\* lines 56-94: arguments parsed, matcher built, threshold set to 0.0 by
\* --dry-run, match_signal called
InitScript ==
    /\ pc = "start"
    /\ run = 1
    /\ arg \in { [dry_run |-> d] : d \in BOOLEAN }
    /\ ret = NoValue
    /\ IF arg.dry_run THEN threshold = 0 ELSE threshold \in Thresholds
    /\ signal \in SignalTexts
    /\ crm_links \in SUBSET Companies
    /\ match_history = <<>>
    /\ audit_mark = 0
    /\ linked_before = {}
    /\ existing_companies = {}
    /\ company_names = <<>>
    /\ name_idx = 0
    /\ all_matches = <<>>
    /\ seen_ids = {}
    /\ best_match = 0
    /\ link_idx = 0
    /\ associations_created = 0
    /\ owner_name = ""
    /\ shared_user_names = <<>>
    /\ calls = <<>>
    /\ faults = 0
    /\ slack_mode = "unread"
    /\ result = NoValue

SpecScript == InitScript /\ [][RunStep]_vars

(***************************************************************************)
(* The OpenAI provider as one SignalMatcher object reaches it: through     *)
(* its EmbeddingGenerator (lib/embeddings.py) and through its own client   *)
(* (extract_company_names).  arg holds the generator's request counter,    *)
(* the start of its window and the clock (seconds); ret describes the      *)
(* last call.                                                              *)
(***************************************************************************)
MaxClock == 125     \* the clock stops advancing here

\* EmbeddingGenerator.MAX_REQUESTS_PER_MINUTE
MAX_REQUESTS_PER_MINUTE == 3000

\* seconds that may pass between two readings of the clock
Ticks == {0, 30, 61}

\* The mutation in which the counter is not set back when the limit is near.
RateLimitMutantNoSleep(self, now, later) ==
    LET expired == now - self.minute_start > 60
    IN  [request_count |-> IF expired THEN 0 ELSE self.request_count + 1,
         minute_start |-> IF expired THEN now ELSE self.minute_start,
         clock |-> now, slept |-> 0]

\* EmbeddingGenerator._rate_limit; now is time.time() as lines 37-39 read
\* it, later as lines 42-46 read it.  The record returned holds the two
\* attributes on return, the clock on return and the seconds slept.
rate_limit(self, now, later) ==
    LET incremented == self.request_count + 1
        expired == now - self.minute_start > 60
        request_count == IF expired THEN 0 ELSE incremented
        minute_start == IF expired THEN now ELSE self.minute_start
    IN  IF request_count >= MAX_REQUESTS_PER_MINUTE - 100
        THEN LET sleep_time == 60 - (later - minute_start)
                 slept == IF sleep_time > 0 THEN sleep_time ELSE 0
             IN  [request_count |-> 0, minute_start |-> later + slept,
                  clock |-> later + slept, slept |-> slept]
        ELSE [request_count |-> request_count, minute_start |-> minute_start,
              clock |-> now, slept |-> 0]

\* texts handed to the generator
EmbedTexts == { <<>>, <<" ">>, <<"a">>, <<"b">> }

\* "not text or not text.strip()"
IsBlank(text) == text = <<>> \/ Strip(text) = <<>>

\* __init__ (lines 29-31): counter zero, window started at construction
InitProvider ==
    /\ pc = "call"
    /\ arg = [request_count |-> 0, minute_start |-> 0, clock |-> 0]
    /\ ret = NoValue
    /\ EngineIdle

\* generate_embedding (lines 48-65): nothing is sent for a blank text;
\* otherwise _rate_limit runs and then the request goes out
GenerateEmbedding ==
    /\ pc = "call"
    /\ \E text \in EmbedTexts, before \in Ticks, during \in Ticks :
         LET now == arg.clock + before
             later == now + during
             limited == rate_limit(arg, now, later)
         IN  /\ later <= MaxClock
             /\ IF IsBlank(text)
                THEN /\ arg' = [arg EXCEPT !.clock = now]
                     /\ ret' = [op |-> "generate_embedding", sent |-> FALSE,
                                limited |-> FALSE, slept |-> 0]
                ELSE /\ limited.clock <= MaxClock
                     /\ arg' = [request_count |-> limited.request_count,
                                minute_start |-> limited.minute_start,
                                clock |-> limited.clock]
                     /\ ret' = [op |-> "generate_embedding", sent |-> TRUE,
                                limited |-> TRUE, slept |-> limited.slept]
    /\ UNCHANGED <<pc, engine_vars>>

\* extract_company_names (matcher.py 90-117), its request: sent through
\* self.openai; no attribute of the generator is read or written
ExtractCompanyNames ==
    /\ pc = "call"
    /\ \E before \in Ticks :
         /\ arg.clock + before <= MaxClock
         /\ arg' = [arg EXCEPT !.clock = arg.clock + before]
    /\ ret' = [op |-> "extract_company_names", sent |-> TRUE,
               limited |-> FALSE, slept |-> 0]
    /\ UNCHANGED <<pc, engine_vars>>

NextProvider ==
    \/ GenerateEmbedding
    \/ ExtractCompanyNames

SpecProvider == InitProvider /\ [][NextProvider]_vars

(***************************************************************************)
(* EmbeddingGenerator.generate_embeddings_batch, one action per iteration  *)
(* of its outer loop.  arg holds texts and batch_size; ret holds the       *)
(* locals (embeddings, the loop position i), the generator's counter and   *)
(* the requests sent to the provider.                                      *)
(***************************************************************************)
MaxTexts == 3       \* texts given to generate_embeddings_batch

\* EmbeddingGenerator.DIMENSIONS and MAX_TOKENS_PER_REQUEST
DIMENSIONS == 1536
MAX_TOKENS_PER_REQUEST == 8000

\* [0.0] * self.DIMENSIONS
ZeroVector == [zeros |-> DIMENSIONS]

\* the vector the provider computes for a text
Embedding(text) == [embedding_of |-> text]

\* text[:max_chars] if len(text) > max_chars else text
Truncated(text) ==
    LET max_chars == MAX_TOKENS_PER_REQUEST * 4
    IN  IF Len(text) > max_chars THEN SubSeq(text, 1, max_chars) ELSE text

\* embeddings.create(input = processed_batch): one embedding per input, in
\* the order of the inputs
CreateEmbeddings(processed_batch) ==
    [k \in 1..Len(processed_batch) |-> Embedding(processed_batch[k])]

\* lines 78-86: the texts of the batch that are sent
ProcessedBatch(batch) ==
    LET kept == SelectSeq(batch, LAMBDA text : ~IsBlank(text))
    IN  [k \in 1..Len(kept) |-> Truncated(kept[k])]

\* The mutation in which the provider's vectors come first and the zero
\* vectors after them.
AssembledMutantPacked(batch, batch_embeddings) ==
    batch_embeddings \o
        [k \in 1..(Len(batch) - Len(batch_embeddings)) |-> ZeroVector]

\* lines 99-106: zero vectors at the empty positions, the provider's
\* vectors, in their order, at the others
RECURSIVE Assembled(_, _)
Assembled(batch, batch_embeddings) ==
    IF batch = <<>> THEN <<>>
    ELSE IF IsBlank(Head(batch))
         THEN <<ZeroVector>> \o Assembled(Tail(batch), batch_embeddings)
    ELSE <<Head(batch_embeddings)>> \o
             Assembled(Tail(batch), Tail(batch_embeddings))

BatchSizes == (1..MaxTexts) \cup {100}

EmbedInputs ==
    { [texts |-> q, batch_size |-> b] :
        q \in SeqsUpTo(EmbedTexts, MaxTexts), b \in BatchSizes }

\* line 73, on a generator just built
InitEmbed ==
    /\ pc = "for"
    /\ arg \in EmbedInputs
    /\ ret = [embeddings |-> <<>>, i |-> 0, requests |-> <<>>,
              request_count |-> 0, minute_start |-> 0, clock |-> 0]
    /\ EngineIdle

\* lines 75-110: one batch
EmbedBatch ==
    /\ pc = "for"
    /\ ret.i < Len(arg.texts)
    /\ LET batch == SubSeq(arg.texts, ret.i + 1,
                           Min(ret.i + arg.batch_size, Len(arg.texts)))
           processed_batch == ProcessedBatch(batch)
           limited == rate_limit(ret, ret.clock, ret.clock)
       IN  ret' = [embeddings |-> ret.embeddings \o
                       (IF processed_batch # <<>>
                        THEN Assembled(batch,
                                 CreateEmbeddings(processed_batch))
                        ELSE [k \in 1..Len(batch) |-> ZeroVector]),
                   i |-> ret.i + arg.batch_size,
                   requests |-> IF processed_batch # <<>>
                                THEN Append(ret.requests, processed_batch)
                                ELSE ret.requests,
                   request_count |-> limited.request_count,
                   minute_start |-> limited.minute_start,
                   clock |-> limited.clock]
    /\ UNCHANGED <<pc, arg, engine_vars>>

\* line 112
EmbedReturn ==
    /\ pc = "for"
    /\ ret.i >= Len(arg.texts)
    /\ pc' = "return"
    /\ UNCHANGED <<arg, ret, engine_vars>>

NextEmbed ==
    \/ EmbedBatch
    \/ EmbedReturn

SpecEmbed == InitEmbed /\ [][NextEmbed]_vars

(***************************************************************************)
(* extract_company_names on its own.  The provider's message content is a  *)
(* sequence of tokens: brackets, commas and blanks ([t |-> ...]), JSON     *)
(* strings ([str |-> text]), numbers ([num |-> n]), null, and words of     *)
(* prose ([t |-> "x"]).                                                    *)
(***************************************************************************)
MaxItems == 2       \* items of the array in the provider's answer

Tok(t) == [t |-> t]
IsTok(x, t) == "t" \in DOMAIN x /\ x.t = t

\* values a JSON array may hold
JsonItems ==
    { [str |-> <<>>], [str |-> <<" ">>], [str |-> <<"a">>],
      [str |-> <<" ", "a", " ">>], [str |-> <<"b">>], [num |-> 7],
      [null |-> TRUE] }

IsJsonItem(x) == "str" \in DOMAIN x \/ "num" \in DOMAIN x \/ "null" \in DOMAIN x

\* str.strip() of the content: blanks at both ends removed
RECURSIVE LStripTokens(_)
LStripTokens(q) ==
    IF q # <<>> /\ IsTok(Head(q), " ") THEN LStripTokens(Tail(q)) ELSE q

RECURSIVE RStripTokens(_)
RStripTokens(q) ==
    IF q # <<>> /\ IsTok(q[Len(q)], " ")
    THEN RStripTokens(SubSeq(q, 1, Len(q) - 1)) ELSE q

StripTokens(q) == RStripTokens(LStripTokens(q))

\* json.loads of a text that starts with "[": the list of values, or
\* invalid (the call raises) unless the text is a well-formed array
JsonLoads(q) ==
    LET inner == SelectSeq(SubSeq(q, 2, Len(q) - 1),
                           LAMBDA x : ~IsTok(x, " "))
        wellformed ==
            /\ Len(q) >= 2
            /\ IsTok(q[1], "[")
            /\ IsTok(q[Len(q)], "]")
            /\ \/ inner = <<>>
               \/ /\ Len(inner) % 2 = 1
                  /\ \A i \in 1..Len(inner) :
                        IF i % 2 = 1 THEN IsJsonItem(inner[i])
                        ELSE IsTok(inner[i], ",")
    IN  IF wellformed
        THEN [valid |-> TRUE,
              value |-> [i \in 1..((Len(inner) + 1) \div 2) |->
                            inner[2 * i - 1]]]
        ELSE [valid |-> FALSE]

\* the text of a JSON array with the given items
RECURSIVE Joined(_)
Joined(items) ==
    IF items = <<>> THEN <<>>
    ELSE IF Len(items) = 1 THEN <<items[1]>>
    ELSE <<items[1], Tok(",")>> \o Joined(Tail(items))

ArrayText(items) == <<Tok("[")>> \o Joined(items) \o <<Tok("]")>>

\* What chat.completions.create may give back: an exception, a message
\* without content (None: <<>>), or a content text (<<text>>).
ExtractResponses ==
    { [ok |-> FALSE], [ok |-> TRUE, content |-> <<>>] } \cup
    { [ok |-> TRUE, content |-> <<c>>] :
        c \in { ArrayText(items) : items \in SeqsUpTo(JsonItems, MaxItems) }
           \cup { <<Tok(" ")>> \o ArrayText(items) \o <<Tok(" ")>> :
                     items \in SeqsUpTo(JsonItems, 1) }
           \cup { <<>>, <<Tok("x")>>, <<Tok("x")>> \o ArrayText(<<>>),
                  <<Tok("["), [str |-> <<"a">>]>>,
                  <<Tok("["), Tok(","), Tok("]")>>,
                  <<Tok("["), [str |-> <<"a">>], [str |-> <<"b">>],
                    Tok("]")>>,
                  ArrayText(<<[str |-> <<"a">>]>>) \o <<Tok("x")>> } }

\* "c and isinstance(c, str)"
KeptItem(c) == "str" \in DOMAIN c /\ c.str # <<>>

\* extract_company_names (lines 90-117), after the request returned
extract_company_names(response) ==
    IF ~response.ok \/ response.content = <<>> THEN <<>>
    ELSE LET stripped == StripTokens(response.content[1])
         IN  IF stripped # <<>> /\ IsTok(stripped[1], "[")
             THEN LET companies == JsonLoads(stripped)
                  IN  IF ~companies.valid THEN <<>>
                      ELSE LET kept == SelectSeq(companies.value, KeptItem)
                           IN  [i \in 1..Len(kept) |-> Strip(kept[i].str)]
             ELSE <<>>

InitExtract ==
    /\ pc = "call"
    /\ arg \in ExtractResponses
    /\ ret = NoValue
    /\ EngineIdle

CallExtractCompanyNames ==
    /\ pc = "call"
    /\ ret' = [names |-> extract_company_names(arg)]
    /\ pc' = "return"
    /\ UNCHANGED <<arg, engine_vars>>

SpecExtract == InitExtract /\ [][CallExtractCompanyNames]_vars

(***************************************************************************)
(* Properties.                                                             *)
(***************************************************************************)
\* the calls of the current run with one of the given names
CallsOf(ops) == SelectSeq(calls, LAMBDA c : c.op \in ops)

\* the rows the current run appended to match_history
WrittenNow == SubSeq(match_history, audit_mark + 1, Len(match_history))

\* get_signal returned the signal to the current run
SignalFetched == calls # <<>> /\ calls[1].op = "get_signal" /\ calls[1].ok

\* a property that is None or ''
IsEmptyText(opt) == opt = <<>> \/ opt[1] = <<>>

BothTextsEmpty ==
    IsEmptyText(signal.signal_description)
        /\ IsEmptyText(signal.signal_citation)

\* what C1 says of a run on a fetched signal without text, for a given
\* error string
NoTextOutcome(error) ==
    /\ pc \in {"start", "done"}
    /\ \A i \in 1..Len(calls) : calls[i].op = "get_signal"
    /\ WrittenNow = <<>>
    /\ (pc = "done" /\ SignalFetched) =>
          /\ "error" \in DOMAIN result
          /\ result.error = error
          /\ result.company_matches = <<>>
          /\ result.associations_created = 0
          /\ crm_links = existing_companies

\* C1 (as amended): for every signal that get_signal returns with description
\* and citation both empty, match_signal returns a result with
\* error = "No text content", no candidates and associations_created = 0, and
\* the run makes no call but the signal fetch: no extraction, search, link,
\* owner or watcher write, audit entry or notification.
C1_NoTextShortCircuit == BothTextsEmpty => NoTextOutcome("No text content")

\* C1 as stated: the error string is "no text content".
C1_AsStated == BothTextsEmpty => NoTextOutcome("no text content")

C1_Witness ==
    /\ pc = "done"
    /\ SignalFetched
    /\ BothTextsEmpty
    /\ signal.signal_description # <<>>
    /\ result = NoTextResult
    /\ Len(calls) = 1

RECURSIVE Flatten(_)
Flatten(qs) == IF qs = <<>> THEN <<>> ELSE Head(qs) \o Flatten(Tail(qs))

\* every record the searches of the current run returned, in order
SearchStream ==
    LET searches == CallsOf({"search_company_by_name"})
    IN  Flatten([i \in 1..Len(searches) |-> searches[i].results])

\* the result of a run that went through the link step
Matched == pc = "done" /\ "best_match" \in DOMAIN result

\* the candidate list returned (empty while the run has not returned)
Returned ==
    IF pc = "done" /\ "company_matches" \in DOMAIN result
    THEN result.company_matches ELSE <<>>

LinkCalls == CallsOf({"create_signal_company_association"})
AuditCalls == CallsOf({"log_match"})

\* some search of the run scored the entity at or above the threshold
ScoredAdmissible(company_id) ==
    \E p \in 1..Len(SearchStream) :
        /\ SearchStream[p].hubspot_id = company_id
        /\ SearchStream[p].similarity >= threshold

\* C2: every candidate of all_matches and of the returned list has
\* similarity >= threshold, and an entity appears in the result, gets a link
\* attempt or gets an audit entry only with a search score at or above the
\* threshold.
C2_ThresholdGate ==
    /\ \A i \in 1..Len(all_matches) :
          /\ all_matches[i].similarity >= threshold
          /\ ScoredAdmissible(all_matches[i].hubspot_id)
    /\ \A i \in 1..Len(Returned) :
          /\ Returned[i].similarity >= threshold
          /\ ScoredAdmissible(Returned[i].hubspot_id)
    /\ \A i \in 1..Len(LinkCalls) : ScoredAdmissible(LinkCalls[i].company_id)
    /\ \A i \in 1..Len(AuditCalls) :
          /\ AuditCalls[i].row.confidence >= threshold
          /\ ScoredAdmissible(AuditCalls[i].row.matched_hubspot_id)
    /\ \A i \in 1..Len(WrittenNow) :
          /\ WrittenNow[i].confidence >= threshold
          /\ ScoredAdmissible(WrittenNow[i].matched_hubspot_id)

\* a run that linked and logged one entity while a search had returned
\* another one below the threshold
C2_Witness ==
    /\ Matched
    /\ LinkCalls # <<>>
    /\ WrittenNow # <<>>
    /\ \E p \in 1..Len(SearchStream) :
          /\ SearchStream[p].similarity < threshold
          /\ \A i \in 1..Len(Returned) :
                Returned[i].hubspot_id # SearchStream[p].hubspot_id

\* position p of the stream is the first that admits its entity
FirstAdmission(p) ==
    /\ SearchStream[p].similarity >= threshold
    /\ \A q \in 1..(p - 1) :
          ~(/\ SearchStream[q].hubspot_id = SearchStream[p].hubspot_id
            /\ SearchStream[q].similarity >= threshold)

KeepsFirstAdmission(list) ==
    /\ \A i, j \in 1..Len(list) :
          i # j => list[i].hubspot_id # list[j].hubspot_id
    /\ \A i \in 1..Len(list) :
          \E p \in 1..Len(SearchStream) :
              /\ FirstAdmission(p)
              /\ SearchStream[p].hubspot_id = list[i].hubspot_id
              /\ SearchStream[p].name = list[i].name
              /\ SearchStream[p].similarity = list[i].similarity

\* C3: at every point of the search loop and in the returned result the
\* entity ids of the candidate list are pairwise distinct, and each candidate
\* carries the name and score of the first occurrence of its entity that was
\* admitted, whatever later occurrences score.
C3_DedupFirstWins ==
    /\ KeepsFirstAdmission(all_matches)
    /\ KeepsFirstAdmission(Returned)
    /\ Cardinality(seen_ids) = Len(all_matches)

\* an entity returned by two searches, the second time with a higher score,
\* is returned once, with the first score
C3_Witness ==
    /\ Matched
    /\ \E p, q \in 1..Len(SearchStream) :
          /\ p < q
          /\ FirstAdmission(p)
          /\ SearchStream[q].hubspot_id = SearchStream[p].hubspot_id
          /\ SearchStream[q].similarity > SearchStream[p].similarity
          /\ \E i \in 1..Len(Returned) :
                /\ Returned[i].hubspot_id = SearchStream[p].hubspot_id
                /\ Returned[i].similarity = SearchStream[p].similarity

\* the priority table as the specification gives it
StatedPriority(stage) ==
    IF stage = "Customer" THEN 3
    ELSE IF stage = "Prospect" THEN 2
    ELSE IF stage = "Agency" THEN 1
    ELSE 0

\* (similarity, priority) of element i of list is lexicographically >= that
\* of element j
KeyAtLeast(list, i, j) ==
    \/ list[i].similarity > list[j].similarity
    \/ /\ list[i].similarity = list[j].similarity
       /\ StatedPriority(list[i].stage) >= StatedPriority(list[j].stage)

HasMaximalKey(list, i) == \A j \in 1..Len(list) : KeyAtLeast(list, i, j)

\* the stated example [(0.95, Prospect), (0.95, Customer), (0.80, Customer)]
IsStatedExample(list) ==
    /\ Len(list) = 3
    /\ list[1].similarity = 95 /\ list[1].stage = "Prospect"
    /\ list[2].similarity = 95 /\ list[2].stage = "Customer"
    /\ list[3].similarity = 80 /\ list[3].stage = "Customer"

\* C4: select_best_match returns None for the empty list, the sole element
\* of a one-element list, and otherwise an element whose (similarity, stage
\* priority) key is lexicographically maximal, with Customer = 3,
\* Prospect = 2, Agency = 1 and any other stage 0; for the stated example it
\* returns the second element.
C4_SelectBestMatch ==
    pc = "return" =>
        /\ arg = <<>> => ret = NoneVal
        /\ Len(arg) = 1 => ret = arg[1]
        /\ Len(arg) > 1 =>
              \E i \in 1..Len(arg) : ret = arg[i] /\ HasMaximalKey(arg, i)
        /\ IsStatedExample(arg) => ret = arg[2]

C4_Witness == pc = "return" /\ IsStatedExample(arg) /\ ret = arg[2]

\* C5: when several candidates share the maximal key, select_best_match
\* returns the one with the smallest index.
C5_FirstDiscoveredWins ==
    (pc = "return" /\ Len(arg) >= 2) =>
        \A i \in 1..Len(arg) :
            (/\ HasMaximalKey(arg, i)
             /\ \A j \in 1..(i - 1) : ~HasMaximalKey(arg, j)) => ret = arg[i]

\* two candidates share the maximal key, a lesser one stands between them,
\* and the earlier one is returned
C5_Witness ==
    /\ pc = "return"
    /\ Len(arg) = 3
    /\ HasMaximalKey(arg, 1)
    /\ ~HasMaximalKey(arg, 2)
    /\ HasMaximalKey(arg, 3)
    /\ ret = arg[1]

\* the configured customer values
StatedCustomerValues == {S_customer, S_1105763437}

\* the classification C10 describes; the lifecycle-stage is compared as
\* given (exact) or after lower-casing
StatedStage(details, exact) ==
    LET type == Get(details, "company_type", <<>>)
        lifecycle == Get(details, "lifecyclestage", <<>>)
    IN  IF Lower(type) = S_agency THEN "Agency"
        ELSE IF (IF exact THEN lifecycle ELSE Lower(lifecycle))
                    \in StatedCustomerValues THEN "Customer"
        ELSE "Prospect"

LinkCallsFor(company_id) ==
    SelectSeq(LinkCalls, LAMBDA c : c.company_id = company_id)
AuditCallsFor(company_id) ==
    SelectSeq(AuditCalls, LAMBDA c : c.row.matched_hubspot_id = company_id)
WrittenNowFor(company_id) ==
    SelectSeq(WrittenNow, LAMBDA r : r.matched_hubspot_id = company_id)

\* C6: when a run starts with the links created by earlier runs present in
\* the CRM's existing-links set, it makes no link attempt and writes no audit
\* entry for an entity whose link an earlier run created, and no entity ever
\* has two audit entries of a created link.
C6_IdempotentAcrossRuns ==
    linked_before \subseteq crm_links =>
        /\ \A e \in linked_before :
              /\ LinkCallsFor(e) = <<>>
              /\ AuditCallsFor(e) = <<>>
              /\ WrittenNowFor(e) = <<>>
        /\ \A e \in Companies :
              Cardinality({ i \in 1..Len(match_history) :
                              /\ match_history[i].matched_hubspot_id = e
                              /\ match_history[i].association_created }) <= 1

\* the second run admits an entity the first run linked, and skips it
C6_Witness ==
    /\ run = 2
    /\ Matched
    /\ \E i \in 1..Len(Returned) :
          /\ Returned[i].hubspot_id \in linked_before
          /\ Returned[i].hubspot_id \in existing_companies
          /\ ~Returned[i].association_created
    /\ \E i \in 1..audit_mark :
          /\ match_history[i].association_created
          /\ match_history[i].matched_hubspot_id \in linked_before

\* the number of candidates the link loop has gone through
Processed ==
    IF pc = "link" THEN link_idx - 1
    ELSE IF pc \in {"shared", "notify"} \/ Matched THEN Len(all_matches)
    ELSE 0

StatedAuditEntry(m, created) ==
    [signal_id |-> SignalId, matched_type |-> "company",
     matched_hubspot_id |-> m.hubspot_id, confidence |-> m.similarity,
     association_created |-> created]

\* what C7 says of the candidates the link loop has gone through; absorbed
\* tells whether a failed insert of the audit row is allowed for
LinkStepOutcome(absorbed) ==
    \A i \in 1..Len(all_matches) :
        LET m == all_matches[i]
            attempts == LinkCallsFor(m.hubspot_id)
            audits == AuditCallsFor(m.hubspot_id)
            written == WrittenNowFor(m.hubspot_id)
        IN  IF i <= Processed /\ m.hubspot_id \notin existing_companies
            THEN /\ Len(attempts) = 1
                 /\ m.association_created = attempts[1].ok
                 /\ Len(audits) = 1
                 /\ audits[1].row = StatedAuditEntry(m, attempts[1].ok)
                 /\ IF absorbed /\ ~audits[1].ok
                    THEN written = <<>>
                    ELSE written = <<StatedAuditEntry(m, attempts[1].ok)>>
            ELSE attempts = <<>> /\ audits = <<>> /\ written = <<>>

\* C7 (as amended): for each admitted candidate not in the existing-links
\* set, exactly one link attempt is made and exactly one audit write is made,
\* carrying the signal id, entity id, confidence and the attempt's success
\* flag, after a failed attempt as well as after a successful one; the entry
\* is appended unless the insert itself fails, which is absorbed.  For a
\* candidate already in the existing-links set there is no link attempt and
\* no audit write.
C7_LinkStep == LinkStepOutcome(TRUE)

\* C7 as stated: the audit entry is always written.
C7_AsStated == LinkStepOutcome(FALSE)

\* one candidate skipped as already linked, one whose link attempt failed
\* and whose entry was written with the flag false
C7_Witness ==
    /\ Matched
    /\ \E i, j \in 1..Len(all_matches) :
          /\ all_matches[i].hubspot_id \in existing_companies
          /\ all_matches[j].hubspot_id \notin existing_companies
          /\ ~all_matches[j].association_created
          /\ WrittenNow = <<StatedAuditEntry(all_matches[j], FALSE)>>

NotYetLinkedCandidates ==
    { i \in 1..Len(all_matches) :
          all_matches[i].hubspot_id \notin existing_companies }

\* C8 (as amended): a run that admits candidates makes exactly one audit
\* write per admitted candidate that was not already linked, whether its
\* link was created or the attempt failed, and none for a candidate already
\* linked; each write appends one entry unless the insert itself fails.
C8_OneAuditPerAttempt ==
    Matched =>
        /\ Len(AuditCalls) = Cardinality(NotYetLinkedCandidates)
        /\ \A i \in 1..Len(all_matches) :
              Len(AuditCallsFor(all_matches[i].hubspot_id)) =
                  IF i \in NotYetLinkedCandidates THEN 1 ELSE 0
        /\ Len(WrittenNow) =
              Len(SelectSeq(AuditCalls, LAMBDA c : c.ok))

\* C8 as stated: one entry per admitted candidate, whatever its outcome.
C8_AsStated ==
    Matched =>
        \A i \in 1..Len(all_matches) :
            Len(WrittenNowFor(all_matches[i].hubspot_id)) = 1

\* two candidates, one link created and one failed, two entries
C8_Witness ==
    /\ Matched
    /\ Len(all_matches) = 2
    /\ all_matches[1].association_created
    /\ ~all_matches[2].association_created
    /\ all_matches[2].hubspot_id \notin existing_companies
    /\ Len(WrittenNow) = 2

\* the authoritative candidate: maximal key, first among equals
Authoritative(list) ==
    CHOOSE i \in 1..Len(list) :
        HasMaximalKey(list, i) /\ \A j \in 1..(i - 1) : ~HasMaximalKey(list, j)

OwnerCalls == CallsOf({"update_signal_owner"})
SharedCalls == CallsOf({"update_signal_shared_users"})

\* C9: every admitted candidate not already linked gets a link attempt,
\* authoritative or not, while the owner write and the watcher write are
\* made at most once per run, with the owner id and the watcher ids of the
\* authoritative candidate.
C9_LinkAllAssignOne ==
    /\ Len(OwnerCalls) <= 1
    /\ Len(SharedCalls) <= 1
    /\ \A i \in 1..Len(OwnerCalls) :
          OwnerCalls[i].owner_id =
              all_matches[Authoritative(all_matches)].owner_id
    /\ \A i \in 1..Len(SharedCalls) :
          SharedCalls[i].user_ids =
              all_matches[Authoritative(all_matches)].shared_user_ids
    /\ Matched =>
          /\ result.best_match.hubspot_id =
                 all_matches[Authoritative(all_matches)].hubspot_id
          /\ \A i \in NotYetLinkedCandidates :
                 Len(LinkCallsFor(all_matches[i].hubspot_id)) = 1

\* the second candidate is authoritative; the first one is linked all the
\* same, and the owner and watchers written are the second one's
C9_Witness ==
    /\ Matched
    /\ Len(all_matches) = 2
    /\ Authoritative(all_matches) = 2
    /\ all_matches[1].association_created
    /\ all_matches[1].owner_id # all_matches[2].owner_id
    /\ all_matches[1].owner_id # ""
    /\ Len(OwnerCalls) = 1
    /\ OwnerCalls[1].owner_id = all_matches[2].owner_id
    /\ Len(SharedCalls) = 1
    /\ SharedCalls[1].user_ids = all_matches[2].shared_user_ids

\* the four stored owner fields of an attribute map, "" when absent
SalesOwner(d) == Get(d, "ae_owner", "")
OutreachOwner(d) == Get(d, "sdr_owner", "")
ChampionContact(d) == Get(d, "brand_champ", "")
GenericOwner(d) == Get(d, "hubspot_owner_id", "")

StatedOwner(stage, d) ==
    IF stage = "Prospect"
    THEN IF SalesOwner(d) # "" THEN SalesOwner(d) ELSE GenericOwner(d)
    ELSE IF stage = "Customer"
    THEN IF ChampionContact(d) # "" THEN ChampionContact(d)
         ELSE GenericOwner(d)
    ELSE GenericOwner(d)

StatedWatcherCandidates(stage, d) ==
    IF stage = "Prospect" THEN {OutreachOwner(d), GenericOwner(d)}
    ELSE IF stage = "Customer" THEN {GenericOwner(d)}
    ELSE {}

Elements(q) == { q[i] : i \in 1..Len(q) }

AssignReturned == pc = "return" /\ "shared_ids" \in DOMAIN ret

\* C11: get_assignment_for_stage chooses the owner by stage (Prospect: the
\* sales owner, else the generic owner; Customer: the champion contact, else
\* the generic owner; any other stage: the generic owner and no watcher),
\* and the watchers are the stage's watcher candidates ({outreach owner,
\* generic owner} for Prospect, {generic owner} for Customer) less the owner
\* and the empty values.
C11_AssignmentByStage ==
    AssignReturned =>
        /\ ret.owner_id = StatedOwner(arg.stage, arg.company_details)
        /\ Elements(ret.shared_ids) =
               StatedWatcherCandidates(arg.stage, arg.company_details)
                   \ {"", ret.owner_id}
        /\ arg.stage \notin {"Prospect", "Customer"} => ret.shared_ids = <<>>

\* a Prospect with no sales owner: the generic owner is chosen and is not
\* among the watchers
C11_Witness ==
    /\ AssignReturned
    /\ arg.stage = "Prospect"
    /\ SalesOwner(arg.company_details) = ""
    /\ GenericOwner(arg.company_details) = "U1"
    /\ OutreachOwner(arg.company_details) = "U2"
    /\ ret = [owner_id |-> "U1", shared_ids |-> <<"U2">>]

\* C12: the watcher list returned by get_assignment_for_stage contains no
\* empty value, does not contain the chosen owner, and contains no
\* identifier twice.
C12_WatchersClean ==
    AssignReturned =>
        /\ \A i \in 1..Len(ret.shared_ids) :
              ret.shared_ids[i] # "" /\ ret.shared_ids[i] # ret.owner_id
        /\ \A i, j \in 1..Len(ret.shared_ids) :
              ret.shared_ids[i] = ret.shared_ids[j] => i = j

MatchedNotifications == CallsOf({"notify_signal_matched"})
NoMatchNotifications == CallsOf({"notify_signal_no_match"})

\* the run read notify_slack and self.slack and found notifications enabled
NotificationsEnabled == slack_mode \in SlackModes \ {"off"}

\* the authoritative candidate of the returned result
AuthoritativeReturned == result.company_matches[Authoritative(all_matches)]

\* what C13 says when the link to the authoritative candidate was created
\* by this run; always tells whether it says the same in the other cases
MatchedNotification(always) ==
    (Matched /\ NotificationsEnabled) =>
        /\ NoMatchNotifications = <<>>
        /\ IF always \/ AuthoritativeReturned.association_created
           THEN /\ Len(MatchedNotifications) = 1
                /\ calls[Len(calls)].op = "notify_signal_matched"
                /\ MatchedNotifications[1].company_id =
                       result.best_match.hubspot_id
           ELSE MatchedNotifications = <<>>

ExtractCalls == CallsOf({"extract_company_names"})
SearchCalls == CallsOf({"search_company_by_name"})
DetailCalls == CallsOf({"get_company_details"})

\* extraction returned the given kind of list to the current run
ExtractedNone == ExtractCalls # <<>> /\ ExtractCalls[1].names = <<>>
ExtractedSome == ExtractCalls # <<>> /\ ExtractCalls[1].names # <<>>

\* the run returned on the unmatched path
Unmatched ==
    /\ pc = "done"
    /\ "extracted_companies" \in DOMAIN result
    /\ "best_match" \notin DOMAIN result

\* C14: a run in which extraction returns no names, or in which the
\* searches admit no candidate, returns on the unmatched path; such a run
\* (notifications enabled) attempts exactly one "no match" notification, as
\* its last call, and returns zero candidates, zero associations and no
\* error field, having made no link attempt, no audit entry, no owner or
\* watcher write and no "matched" notification, and no search call when
\* extraction returned no names.
C14_UnmatchedPath ==
    /\ (pc = "done" /\ ExtractedNone) => Unmatched /\ SearchCalls = <<>>
    /\ (pc = "done" /\ ExtractedSome /\ all_matches = <<>>) =>
           Unmatched /\ Len(SearchCalls) = Len(ExtractCalls[1].names)
    /\ Unmatched =>
          /\ result.company_matches = <<>>
          /\ result.total_matches = 0
          /\ result.associations_created = 0
          /\ "error" \notin DOMAIN result
          /\ result.extracted_companies = ExtractCalls[1].names
          /\ LinkCalls = <<>> /\ AuditCalls = <<>> /\ WrittenNow = <<>>
          /\ OwnerCalls = <<>> /\ SharedCalls = <<>>
          /\ MatchedNotifications = <<>>
          /\ NotificationsEnabled =>
                /\ Len(NoMatchNotifications) = 1
                /\ calls[Len(calls)].op = "notify_signal_no_match"
                /\ NoMatchNotifications[1].extracted_companies =
                       result.extracted_companies
          /\ ~NotificationsEnabled => NoMatchNotifications = <<>>

\* names were extracted and searched, the searches returned records, none
\* was admitted, and the one "no match" notification was attempted
C14_Witness ==
    /\ Unmatched
    /\ NotificationsEnabled
    /\ Len(result.extracted_companies) = 2
    /\ Len(SearchCalls) = 2
    /\ SearchStream # <<>>
    /\ Len(NoMatchNotifications) = 1

OwnerWriteFailed == OwnerCalls # <<>> /\ ~OwnerCalls[1].ok
SharedWriteFailed == SharedCalls # <<>> /\ ~SharedCalls[1].ok

\* the link to the entity was created by the current run
LinkCreated(company_id) ==
    \E i \in 1..Len(LinkCalls) :
        LinkCalls[i].company_id = company_id /\ LinkCalls[i].ok

\* the result keeps the whole candidate list (one candidate per entity
\* admitted, in order of admission) and the count of the link step
KeepsLinkStepOutcome ==
    /\ Len(result.company_matches) = Len(DetailCalls)
    /\ result.total_matches = Len(DetailCalls)
    /\ \A i \in 1..Len(DetailCalls) :
          /\ result.company_matches[i].hubspot_id = DetailCalls[i].company_id
          /\ result.company_matches[i].association_created =
                 LinkCreated(DetailCalls[i].company_id)
    /\ result.associations_created =
           Len(SelectSeq(LinkCalls, LAMBDA c : c.ok))

\* C15: when the owner write or the watcher write for the authoritative
\* candidate has failed, the run returns a matched result without an error
\* field, with the whole candidate list and the associations-created count
\* of the link step, and with an empty applied owner (owner write failed)
\* or an empty applied watcher list (watcher write failed).
C15_AssignmentFailureAbsorbed ==
    (pc = "done" /\ (OwnerWriteFailed \/ SharedWriteFailed)) =>
        /\ Matched
        /\ "error" \notin DOMAIN result
        /\ KeepsLinkStepOutcome
        /\ OwnerWriteFailed => result.best_match.owner_assigned = ""
        /\ SharedWriteFailed => result.best_match.shared_users = <<>>

\* the owner write failed after a link was created; the watcher write, made
\* all the same, succeeded
C15_Witness ==
    /\ Matched
    /\ OwnerWriteFailed
    /\ result.associations_created >= 1
    /\ result.best_match.owner_assigned = ""
    /\ SharedCalls # <<>>
    /\ result.best_match.shared_users # <<>>

\* the applied owner and watchers, as the owner and watcher writes of the
\* run determine them
AppliedFromWrites ==
    /\ result.best_match.owner_assigned =
           IF OwnerCalls # <<>> /\ OwnerCalls[1].ok
           THEN get_owner_name(OwnerCalls[1].owner_id) ELSE ""
    /\ result.best_match.shared_users =
           IF SharedCalls # <<>> /\ SharedCalls[1].ok
           THEN [i \in 1..Len(SharedCalls[1].user_ids) |->
                    get_owner_name(SharedCalls[1].user_ids[i])]
           ELSE <<>>

\* C16: whatever the notification attempt did (sent, failed, sink not
\* configured, or notifications off), the result of a run that reached a
\* notification point has no error field and is the outcome that the
\* responses of the other collaborators determine: the names extracted, the
\* candidates admitted with their link flags, the count of links created,
\* the owner and watchers applied.
C16_NotifyOutcomeIgnored ==
    (pc = "done" /\ slack_mode \in SlackModes) =>
        /\ "error" \notin DOMAIN result
        /\ result.extracted_companies = ExtractCalls[1].names
        /\ KeepsLinkStepOutcome
        /\ Matched <=> DetailCalls # <<>>
        /\ Matched =>
              /\ AppliedFromWrites
              /\ result.best_match.hubspot_id =
                     all_matches[Authoritative(all_matches)].hubspot_id
              /\ \A i \in 1..Len(all_matches) :
                    /\ result.company_matches[i].name = all_matches[i].name
                    /\ result.company_matches[i].similarity =
                           all_matches[i].similarity
                    /\ result.company_matches[i].stage = all_matches[i].stage

\* the send of the "matched" notification failed; the result is the
\* matched one
C16_Witness ==
    /\ Matched
    /\ slack_mode = "failed"
    /\ Len(MatchedNotifications) = 1
    /\ result.associations_created >= 1
    /\ "error" \notin DOMAIN result

\* the names extraction returned to the current run
ExtractedNames == IF ExtractCalls = <<>> THEN <<>> ELSE ExtractCalls[1].names

\* the searches made so far are those of the first names, in order
SearchedInOrder(n) ==
    /\ Len(SearchCalls) = n
    /\ \A i \in 1..n : SearchCalls[i].company_name = ExtractedNames[i]

\* C17: a search is made for every extracted name, and a link attempt for
\* every admitted candidate not yet linked, whatever failed for an earlier
\* name or candidate of the run (search, detail fetch, link creation or
\* audit write): once past the search loop every name has been searched,
\* and once past the link loop every such candidate has its link attempt.
C17_FailuresDoNotAbort ==
    /\ pc = "search" => SearchedInOrder(name_idx - 1)
    /\ (pc \in {"link", "shared", "notify", "done"} /\ ExtractedSome) =>
           SearchedInOrder(Len(ExtractedNames))
    /\ \A i \in 1..Processed :
           all_matches[i].hubspot_id \notin existing_companies =>
               Len(LinkCallsFor(all_matches[i].hubspot_id)) = 1
    /\ (pc \in {"shared", "notify"} \/ Matched) =>
           Processed = Len(all_matches)

\* the search of the first name failed; the second name was searched all
\* the same and its candidate linked
C17_Witness ==
    /\ Matched
    /\ faults = 1
    /\ \A i \in 1..Len(calls) : "ok" \in DOMAIN calls[i] => calls[i].ok
    /\ Len(SearchCalls) = 2
    /\ SearchCalls[1].company_name = <<"z">>
    /\ SearchCalls[1].results = <<>>
    /\ SearchCalls[2].results # <<>>
    /\ result.associations_created >= 1

ResultKeys ==
    {"signal_id", "company_matches", "contact_matches", "total_matches",
     "associations_created"}

\* a run that has returned has returned a structured result; a failed
\* fetch gives one with an error field, no candidate and zero counts; a
\* matched or unmatched result has no error field
StructuredResult ==
    /\ pc # "done" => result = NoValue
    /\ pc = "done" =>
          /\ ResultKeys \subseteq DOMAIN result
          /\ result.signal_id = SignalId
          /\ result.total_matches = Len(result.company_matches)
          /\ ~SignalFetched => "error" \in DOMAIN result
          /\ "error" \in DOMAIN result =>
                /\ result.company_matches = <<>>
                /\ result.total_matches = 0
                /\ result.associations_created = 0
                /\ ~Matched /\ ~Unmatched
          /\ "error" \notin DOMAIN result => Matched \/ Unmatched

\* the steps an invocation has left at most: every step lowers it
StepsLeft ==
    CASE pc = "start" -> 100
      [] pc = "extract" -> 90
      [] pc = "search" -> 50 + (Len(company_names) + 1 - name_idx)
      [] pc = "link" -> 20 + (Len(all_matches) + 1 - link_idx)
      [] pc = "shared" -> 10
      [] pc = "notify" -> 5
      [] OTHER -> 0

\* a run that has not returned can take its next step (for the search loop:
\* it is at a name still to search, or past the last one and can go on)
CanStep ==
    CASE pc = "start" -> ENABLED GetSignal
      [] pc = "extract" -> ENABLED Extract
      [] pc = "search" ->
            IF name_idx \in 1..Len(company_names) THEN TRUE
            ELSE ENABLED SelectBest
      [] pc = "link" -> ENABLED (LinkOne \/ AssignOwner)
      [] pc = "shared" -> ENABLED AssignShared
      [] pc = "notify" -> ENABLED NotifyReturn
      [] OTHER -> pc = "done"

\* C18: match_signal never raises to its caller: whatever failures are
\* injected, a run that has not returned can take its next step, every step
\* brings it nearer to its return, and what it returns is a structured
\* result, with an error field, an empty candidate list and zero counts
\* after a failed signal fetch and without an error field when the run was
\* matched or unmatched.
C18_NeverRaises ==
    /\ [](StructuredResult /\ CanStep)
    /\ [][RunStep => (StepsLeft' < StepsLeft /\ StepsLeft' >= 0)]_vars

\* the signal fetch failed and the run returned the error result
C18_Witness ==
    /\ pc = "done"
    /\ Len(calls) = 1
    /\ ~SignalFetched
    /\ "error" \in DOMAIN result
    /\ result.company_matches = <<>>
    /\ result.associations_created = 0

FetchCalls == CallsOf({"get_signal"})
DetailCallsFor(company_id) ==
    SelectSeq(DetailCalls, LAMBDA c : c.company_id = company_id)

\* C19: no retries.  At every point of a run, whatever the calls returned:
\* the signal fetch and the name extraction have been called at most once;
\* the searches made are one per extracted name, in order (and all of them
\* once the search loop is over); the detail fetch and the link creation
\* have been called at most once per entity id; the owner write and the
\* watcher write at most once each.
C19_NoRetries ==
    /\ Len(FetchCalls) <= 1
    /\ Len(ExtractCalls) <= 1
    /\ Len(SearchCalls) <= Len(ExtractedNames)
    /\ \A i \in 1..Len(SearchCalls) :
          SearchCalls[i].company_name = ExtractedNames[i]
    /\ (pc \in {"link", "shared", "notify", "done"}) =>
          Len(SearchCalls) = Len(ExtractedNames)
    /\ \A e \in Companies :
          /\ Len(DetailCallsFor(e)) <= 1
          /\ Len(LinkCallsFor(e)) <= 1
    /\ Len(OwnerCalls) <= 1
    /\ Len(SharedCalls) <= 1

\* a run in which a link creation failed and was not tried again, after
\* two searches that both returned the entity
C19_Witness ==
    /\ Matched
    /\ Len(SearchCalls) = 2
    /\ \E e \in Companies :
          /\ Len(LinkCallsFor(e)) = 1
          /\ ~LinkCallsFor(e)[1].ok
          /\ Len(DetailCallsFor(e)) = 1
          /\ \A i \in 1..2 : \E j \in 1..Len(SearchCalls[i].results) :
                SearchCalls[i].results[j].hubspot_id = e

\* the positions in the call log of the calls of the given kinds
PositionsOf(ops) == { i \in 1..Len(calls) : calls[i].op \in ops }

\* every call of the first kinds was made before every call of the second
AllBefore(first, second) ==
    \A i \in PositionsOf(first), j \in PositionsOf(second) : i < j

SearchOps == {"search_company_by_name", "get_company_details"}
LinkOps == {"create_signal_company_association", "log_match"}
AssignOps == {"update_signal_owner", "update_signal_shared_users"}
NotifyOps == {"notify_signal_matched", "notify_signal_no_match"}

\* C20: the calls of a run are made in the order extract, search, link,
\* assign, notify, without overlap: no link attempt before the search of
\* the last extracted name has returned, each link attempt followed at once
\* by its audit write, no owner or watcher write before the last link
\* attempt and its audit write, the owner write before the watcher write,
\* and the notification after them, as the last call of the run.
C20_StepOrder ==
    /\ AllBefore({"get_signal"}, {"extract_company_names"})
    /\ AllBefore({"extract_company_names"}, SearchOps)
    /\ AllBefore(SearchOps, LinkOps)
    /\ AllBefore(LinkOps, AssignOps)
    /\ AllBefore({"update_signal_owner"}, {"update_signal_shared_users"})
    /\ AllBefore(AssignOps, NotifyOps)
    /\ \A i \in PositionsOf(NotifyOps) : i = Len(calls) /\ pc = "done"
    /\ \A i \in PositionsOf({"create_signal_company_association"}) :
          /\ i < Len(calls)
          /\ calls[i + 1].op = "log_match"
          /\ calls[i + 1].row.matched_hubspot_id = calls[i].company_id
    /\ PositionsOf(LinkOps) # {} => Len(SearchCalls) = Len(ExtractedNames)
    /\ PositionsOf(AssignOps \cup {"notify_signal_matched"}) # {} =>
          \A i \in NotYetLinkedCandidates :
              /\ Len(LinkCallsFor(all_matches[i].hubspot_id)) = 1
              /\ Len(AuditCallsFor(all_matches[i].hubspot_id)) = 1

\* a run that made calls of every step: two searches, two link attempts
\* with their audit writes, the owner write, the watcher write and the
\* "matched" notification
C20_Witness ==
    /\ Matched
    /\ Len(SearchCalls) = 2
    /\ Len(LinkCalls) = 2
    /\ Len(AuditCalls) = 2
    /\ Len(OwnerCalls) = 1
    /\ Len(SharedCalls) = 1
    /\ Len(MatchedNotifications) = 1

(***************************************************************************)
(* The loop over a list of signals.                                        *)
(***************************************************************************)
\* position of a signal id in the list being processed
ListPosition(signal_id) ==
    CHOOSE i \in 1..Len(arg.signals) : arg.signals[i] = signal_id

\* the audit entries of each signal form one block of the audit log, the
\* blocks in list order
AuditBlocks ==
    /\ \A i \in 1..Len(match_history) :
          match_history[i].signal_id \in
              { arg.signals[k] : k \in 1..Len(arg.signals) }
    /\ \A i, j \in 1..Len(match_history) :
          i < j => ListPosition(match_history[i].signal_id) <=
                   ListPosition(match_history[j].signal_id)
    /\ \A i, j, k \in 1..Len(match_history) :
          (i < j /\ j < k /\
           match_history[i].signal_id = match_history[k].signal_id)
              => match_history[j].signal_id = match_history[i].signal_id

\* the entries written since the current call began are those of the signal
\* at the loop's position; the earlier ones belong to earlier signals
CurrentBlock ==
    /\ \A i \in 1..Len(match_history) :
          IF i > audit_mark
          THEN match_history[i].signal_id = arg.signals[run]
          ELSE ListPosition(match_history[i].signal_id) < run

\* C21: when a list of signals is processed, the signals are resolved one
\* after the other in list order: the loop moves to the next signal only
\* when the call for the current one has returned its result (its
\* notification step is behind it), the position advances by one, and the
\* audit entries written for one signal form one contiguous block of the
\* audit log, never interleaved with those of another signal.
C21_SequentialBatch ==
    /\ [](AuditBlocks /\ CurrentBlock)
    /\ [][run' # run =>
             /\ pc = "done"
             /\ result # NoValue
             /\ run' = run + 1
             /\ pc' = "start"]_vars

\* two signals processed, each of which left audit entries
C21_Witness ==
    /\ pc = "summary"
    /\ Len(arg.signals) = 2
    /\ audit_mark > 0
    /\ Len(match_history) > audit_mark
    /\ match_history[1].signal_id = arg.signals[1]
    /\ match_history[Len(match_history)].signal_id = arg.signals[2]
    /\ ret.total_processed = 2

(***************************************************************************)
(* Requests to the OpenAI provider.                                        *)
(***************************************************************************)
\* the step sends a request to the provider
SendsRequest == ret' # NoValue /\ ret'.sent

\* the step ran _rate_limit
RunsRateLimit == ret' # NoValue /\ ret'.limited

\* the step changed the generator's counter or restarted its window
CountsRequest ==
    <<arg'.request_count, arg'.minute_start>> #
        <<arg.request_count, arg.minute_start>>

\* the request of the step would bring the counter to the limit less 100
NearLimit == arg.request_count + 1 >= MAX_REQUESTS_PER_MINUTE - 100

\* C22: every request sent to the provider, an embedding request or a
\* name-extraction request, is counted by the shared rate-limiting counter,
\* and a request that would bring the count of the current window to the
\* limit's margin is sent only after the caller slept to the window's end.
C22_AllRequestsCounted ==
    [][SendsRequest =>
          /\ CountsRequest
          /\ (NearLimit /\ arg'.clock - arg.minute_start <= 60)
                 => arg'.clock >= arg.minute_start + 60]_vars

\* C28: after any sequence of calls of _rate_limit the counter is below
\* MAX_REQUESTS_PER_MINUTE - 100 on return; a call made more than 60 seconds
\* after the window's start sets the counter to zero and starts a window; a
\* call sleeps only when its increment brings the counter to
\* MAX_REQUESTS_PER_MINUTE - 100 inside the current window, it sleeps to the
\* end of that window, and a new window then starts with a zero counter.
C28_RateLimit ==
    /\ [](("request_count" \in DOMAIN arg) =>
            /\ arg.request_count >= 0
            /\ arg.request_count < MAX_REQUESTS_PER_MINUTE - 100)
    /\ [][RunsRateLimit =>
            /\ (arg'.clock - arg.minute_start > 60) =>
                   /\ arg'.request_count = 0
                   /\ arg'.minute_start = arg'.clock
            /\ (ret'.slept > 0) =>
                   /\ NearLimit
                   /\ arg'.clock - ret'.slept - arg.minute_start < 60
                   /\ arg'.clock = arg.minute_start + 60
                   /\ arg'.request_count = 0
                   /\ arg'.minute_start = arg'.clock
            /\ (~NearLimit /\ arg'.clock - arg.minute_start <= 60) =>
                   /\ ret'.slept = 0
                   /\ arg'.request_count = arg.request_count + 1
                   /\ arg'.minute_start = arg.minute_start]_vars

\* a call slept: the counter had reached the margin inside the window
C28_Witness ==
    /\ pc = "call"
    /\ ret # NoValue
    /\ "limited" \in DOMAIN ret
    /\ ret.limited
    /\ ret.slept > 0
    /\ arg.request_count = 0
    /\ arg.minute_start = arg.clock

(***************************************************************************)
(* The name extractor.                                                     *)
(***************************************************************************)
\* the provider answered with a well-formed JSON array
AnsweredArray ==
    /\ arg.ok
    /\ arg.content # <<>>
    /\ StripTokens(arg.content[1]) # <<>>
    /\ JsonLoads(StripTokens(arg.content[1])).valid

\* C23: extract_company_names returns pairwise distinct, non-empty,
\* whitespace-trimmed strings for every provider response, also for one that
\* repeats a name or holds a whitespace-only string, and returns the empty
\* sequence when the provider call fails or the response is not a JSON array.
C23_ExtractedNames ==
    (pc = "return" /\ "names" \in DOMAIN ret) =>
        /\ \A i, j \in 1..Len(ret.names) :
              ret.names[i] = ret.names[j] => i = j
        /\ \A i \in 1..Len(ret.names) :
              /\ ret.names[i] # <<>>
              /\ Strip(ret.names[i]) = ret.names[i]
        /\ ~AnsweredArray => ret.names = <<>>

(***************************************************************************)
(* The dry run of the match_signal script.                                 *)
(***************************************************************************)
\* the calls of the run that write to the CRM or to the audit table
WriteOps ==
    {"create_signal_company_association", "log_match",
     "update_signal_owner", "update_signal_shared_users"}

\* C24: a dry run of the match_signal script (--dry-run) shows the potential
\* matches without creating associations: during a dry run no link creation,
\* no audit entry and no owner or watcher write is performed for the signal.
C24_DryRunWritesNothing ==
    ("dry_run" \in DOMAIN arg /\ arg.dry_run) =>
        /\ CallsOf(WriteOps) = <<>>
        /\ match_history = <<>>

(***************************************************************************)
(* The name search.                                                        *)
(***************************************************************************)
\* the score the statement gives a record for a query, in hundredths
StatedScore(query, name) ==
    IF Lower(name) = Lower(query) THEN 100
    ELSE IF IsSubstr(Lower(query), Lower(name))
            \/ IsSubstr(Lower(name), Lower(query)) THEN 90
    ELSE 80

SearchReturned == pc = "return" /\ "matches" \in DOMAIN ret

\* C25: search_company_by_name returns at most 5 records and scores each
\* 1.0 if its lower-cased name equals the lower-cased query, 0.9 if one of
\* the two strings contains the other, 0.8 otherwise, so every score is one
\* of 0.8, 0.9 and 1.0; on a backend error it returns the empty list.
C25_SearchScores ==
    SearchReturned =>
        /\ Len(ret.matches) <= 5
        /\ \A i \in 1..Len(ret.matches) :
              /\ ret.matches[i].similarity =
                     StatedScore(arg.company_name, ret.matches[i].name)
              /\ ret.matches[i].similarity \in {80, 90, 100}
        /\ ~arg.response.ok => ret.matches = <<>>
        /\ arg.response.ok =>
              /\ Len(ret.matches) = Len(arg.response.data)
              /\ \A i \in 1..Len(ret.matches) :
                    ret.matches[i].hubspot_id =
                        arg.response.data[i].hubspot_id

\* six rows pass the filter, five come back, with all three scores
C25_Witness ==
    /\ SearchReturned
    /\ Len(ret.matches) = 5
    /\ { ret.matches[i].similarity : i \in 1..5 } = {80, 90, 100}

(***************************************************************************)
(* The happy path.                                                         *)
(***************************************************************************)
\* one name extracted, one hit at or above the threshold for an entity not
\* yet linked, no collaborator call failed, notifications enabled
HappyPath ==
    /\ pc = "done"
    /\ faults = 0
    /\ NotificationsEnabled
    /\ Len(ExtractedNames) = 1
    /\ Len(SearchCalls) = 1
    /\ Len(SearchCalls[1].results) = 1
    /\ SearchCalls[1].results[1].similarity >= threshold
    /\ SearchCalls[1].results[1].hubspot_id \notin existing_companies

\* C26: on the happy path the result has exactly one candidate, with the
\* entity's id, score and classified stage, associations_created is 1, the
\* owner applied is the one the assignment resolver derives for that stage
\* (U1 for a Prospect with sales owner U1), the watchers applied are the
\* resolver's list, and a matched notification is attempted.
C26_HappyPath ==
    HappyPath =>
        LET hit == SearchCalls[1].results[1]
            details == CompanyDetails(hit.hubspot_id)
            stage == determine_company_stage(details)
            assignment == get_assignment_for_stage(stage, details)
        IN  /\ "best_match" \in DOMAIN result
            /\ "error" \notin DOMAIN result
            /\ Len(result.company_matches) = 1
            /\ result.total_matches = 1
            /\ result.company_matches[1].hubspot_id = hit.hubspot_id
            /\ result.company_matches[1].similarity = hit.similarity
            /\ result.company_matches[1].stage = stage
            /\ result.company_matches[1].association_created
            /\ result.associations_created = 1
            /\ result.best_match.hubspot_id = hit.hubspot_id
            /\ IF assignment[1] = ""
               THEN OwnerCalls = <<>> /\ result.best_match.owner_assigned = ""
               ELSE /\ Len(OwnerCalls) = 1
                    /\ OwnerCalls[1].owner_id = assignment[1]
                    /\ result.best_match.owner_assigned =
                           get_owner_name(assignment[1])
            /\ (stage = "Prospect" /\ SalesOwner(details) = "U1") =>
                   /\ OwnerCalls[1].owner_id = "U1"
                   /\ result.best_match.owner_assigned = get_owner_name("U1")
            /\ IF assignment[2] = <<>>
               THEN SharedCalls = <<>> /\ result.best_match.shared_users = <<>>
               ELSE /\ Len(SharedCalls) = 1
                    /\ SharedCalls[1].user_ids = assignment[2]
                    /\ result.best_match.shared_users =
                           [i \in 1..Len(assignment[2]) |->
                               get_owner_name(assignment[2][i])]
            /\ Len(MatchedNotifications) = 1
            /\ MatchedNotifications[1].company_id = hit.hubspot_id

\* the stated scenario: E1, a Prospect with sales owner U1, found with
\* score 1.0
C26_Witness ==
    /\ HappyPath
    /\ SearchCalls[1].results[1].hubspot_id = "E1"
    /\ SearchCalls[1].results[1].similarity = 100
    /\ result.company_matches[1].stage = "Prospect"
    /\ OwnerCalls[1].owner_id = "U1"
    /\ result.associations_created = 1

(***************************************************************************)
(* The count of associations created.                                      *)
(***************************************************************************)
\* the link creations of the current run that succeeded in the CRM
SucceededLinks == SelectSeq(LinkCalls, LAMBDA c : c.ok)

\* the candidates returned whose link-created flag is true
FlaggedCreated ==
    { i \in 1..Len(result.company_matches) :
        result.company_matches[i].association_created }

\* C27: on every return path of match_signal, the fatal one included, the
\* associations_created of the result is the number of link creations that
\* succeeded in the CRM during the run; on a path without error it is also
\* the number of candidates whose link-created flag is true, and
\* total_matches is the length of the candidate list.
C27_AssociationsCreated ==
    (pc = "done") =>
        /\ result.associations_created = Len(SucceededLinks)
        /\ "error" \notin DOMAIN result =>
              /\ result.associations_created = Cardinality(FlaggedCreated)
              /\ result.total_matches = Len(result.company_matches)
        /\ "error" \in DOMAIN result => SucceededLinks = <<>>

\* two candidates, the link of one created and that of the other refused
C27_Witness ==
    /\ Matched
    /\ Len(result.company_matches) = 2
    /\ Len(LinkCalls) = 2
    /\ Len(SucceededLinks) = 1
    /\ result.associations_created = 1
    /\ result.total_matches = 2

(***************************************************************************)
(* The listing of signals without associations.                            *)
(***************************************************************************)
\* a signal with neither a company nor a contact association
Unassociated(item) ==
    item.associations.companies = <<>> /\ item.associations.contacts = <<>>

\* the signals the CRM has still to hand out
NotYetListed ==
    Len(arg.signals) - (IF ret.after = <<>> THEN 0 ELSE ret.after[1])

ListReturned == pc = "return" /\ "unassociated" \in DOMAIN ret

\* C29: list_signals_without_associations(limit) terminates once the
\* pagination cursor is absent (each iteration that does not end the loop
\* moves the cursor on, and an absent cursor ends it); it returns at most
\* limit signals, only signals with neither a company nor a contact
\* association, in page order, and leaves out an unassociated signal of the
\* pages fetched only when limit signals were already collected.
C29_ListUnassociated ==
    /\ [](ListReturned =>
            LET candidates == SelectSeq(ret.fetched, Unassociated)
            IN  /\ Len(ret.unassociated) <= arg.limit
                /\ \A i \in 1..Len(ret.unassociated) :
                      Unassociated(ret.unassociated[i])
                /\ ret.unassociated =
                      SubSeq(candidates, 1, Len(ret.unassociated))
                /\ Len(ret.unassociated) < Len(candidates) =>
                      Len(ret.unassociated) = arg.limit
                /\ ret.fetched =
                      SubSeq(arg.signals, 1, Len(ret.fetched)))
    /\ []((pc = "while") => ENABLED NextList)
    /\ [][(pc = "while") =>
             /\ pc' = "while" =>
                   /\ ret'.after # <<>>
                   /\ NotYetListed' < NotYetListed
                   /\ NotYetListed' >= 0
             /\ (ret' # ret /\ ret'.after = <<>>) => pc' = "return"]_vars

\* two pages fetched, an associated signal passed over, the limit reached
\* before the CRM's last signal
C29_Witness ==
    /\ ListReturned
    /\ arg.limit = 2
    /\ Len(ret.unassociated) = 2
    /\ Len(ret.fetched) = 3
    /\ ~Unassociated(ret.fetched[2])

(***************************************************************************)
(* Embeddings in batches.                                                  *)
(***************************************************************************)
EmbedReturned == pc = "return" /\ "embeddings" \in DOMAIN ret

\* C30: generate_embeddings_batch returns one vector per input text, in
\* input order, for every batch size: the zero vector at the position of a
\* text that is empty or whitespace only, the provider's embedding of the
\* text at any other position; a batch of empty texts only sends no request.
C30_EmbeddingsBatch ==
    EmbedReturned =>
        /\ Len(ret.embeddings) = Len(arg.texts)
        /\ \A k \in 1..Len(arg.texts) :
              ret.embeddings[k] =
                  IF arg.texts[k] = <<>> \/ Strip(arg.texts[k]) = <<>>
                  THEN [zeros |-> 1536]
                  ELSE Embedding(arg.texts[k])
        /\ (\A k \in 1..Len(arg.texts) : Strip(arg.texts[k]) = <<>>)
              => ret.requests = <<>>
        /\ \A r \in 1..Len(ret.requests) :
              /\ ret.requests[r] # <<>>
              /\ \A k \in 1..Len(ret.requests[r]) :
                    Strip(ret.requests[r][k]) # <<>>

\* three texts in batches of two, a blank one between two others
C30_Witness ==
    /\ EmbedReturned
    /\ arg.batch_size = 2
    /\ arg.texts = << <<"a">>, <<" ">>, <<"b">> >>
    /\ Len(ret.requests) = 2
    /\ ret.embeddings = <<Embedding(<<"a">>), ZeroVector, Embedding(<<"b">>)>>
====
